---- MODULE Spec2Model ----
(***************************************************************************)
(* Model of the inventory / trend engine of "Controles Minimos" (cm.py):   *)
(* the archive entry-name sanitizer, the trend classifier, the identity    *)
(* matcher and the worker that walks the period folders and maintains the  *)
(* historical ledger (historico_completo).                                 *)
(*                                                                         *)
(* Text is modelled as sequences of one-character strings, so that the     *)
(* string operations of the code (replace, lstrip, split, join, lower,     *)
(* list.sort) are computed rather than assumed.                            *)
(***************************************************************************)
EXTENDS Integers, Sequences, FiniteSets, TLC

VARIABLES
    \* --- extraer_archivo, one zip member (cm.py 242-253) ---
    os_name,          \* the platform whose os.path the interpreter uses
    member_filename,  \* member.filename, the raw entry name
    safe_name,        \* result of _sanitize_zipinfo_name
    target_path,      \* os.path.join(dest_dir, safe_name)
    ext_pc,           \* position inside the member loop
    \* --- one trend comparison of worker_procesar (cm.py 923-1035) ---
    valor_actual,     \* filas_actual / size_actual of the current file
    valor_base,       \* filas_ant_val / peso_ant_val / promedio_hist
    umbral_filas_min, \* the floor handed to worker_procesar
    tendencia,        \* <<tendencia_pct, tendencia_clas>>
    trend_pc,         \* which comparison produced tendencia
    \* --- look-up of the previous month's row (cm.py 909-921) ---
    nombre_actual,    \* name of the current file
    df_mes_anterior,  \* names of the previous month's rows, in recorded order
    fila_mes_ant,     \* index of the row chosen, 0 for None
    match_pc,
    \* --- worker_procesar and its surroundings (cm.py 703-1153) ---
    carpeta_base,     \* the base folder: period folder -> exists?, its files
    disk_xlsx,        \* historico_completo.xlsx: absent, corrupt, or its rows
    disk_csv,         \* historico_completo.csv: absent, corrupt, or its rows
    cancel_event,     \* threading.Event shared with the driver
    pc,               \* position of the worker
    corrida,          \* number of worker runs started so far
    ediciones,        \* number of changes made to the base folder between runs
    carpetas_mes,     \* result of buscar_carpetas_mes
    idx_mes,          \* index of the month being processed
    mes_anterior,     \* the month last closed and the mes_anterior it used
    df_historico,     \* the ledger in memory
    archivos,         \* descriptors of the month after removing duplicates
    idx_archivo,      \* index of the next descriptor to read
    datos_mes,        \* rows accumulated for the month
    ultimo_fallo,     \* where the last expansion met a full disk
    procesados,       \* history: months started in this run, in order
    registro,         \* history: per period, its most recent processing
    cancelado_en,     \* history: month whose file loop saw the cancellation
    al_inicio,        \* history: historico_completo.xlsx when the run began
    fin,              \* history: how the last run returned
    \* --- the scratch directories of worker_procesar (cm.py 722-727, 756-758) ---
    temp_roots,       \* months whose temp_root exists under temp_root_base
    temp_base,        \* whether temp_root_base (cmf_temp) exists
    bloqueo,          \* another program holds a lock on an entry of the scratch
    bloqueos,         \* number of locks taken so far
    borrado,          \* history: the last removal of a scratch directory
    guard_traza,      \* history: what manejar_error_espacio did since entered
    resumenes,        \* months whose resumen_generado this run has written
    q_done,           \* the 'done' events the run has put on q, by payload
    resultados_mensuales, \* the months in resultados_mensuales
    \* --- procesar_carpeta_base of "Lista Archivos" (lista.py 472-555) ---
    l_pc,             \* position of the function
    l_base,           \* the base folder
    l_cancel,         \* cancel_event
    l_corrida,        \* number of runs started so far
    l_carpetas,       \* carpetas_mes
    l_idx,            \* idx, the month being processed
    l_items,          \* archivos_para_procesar of the month
    l_file_idx,       \* file_idx, the next descriptor
    historico_data,   \* inventory rows gathered by the run
    nulos_detalle,    \* error rows gathered by the run
    l_temp,           \* months whose extraction directories exist in temp_root
    l_fin,            \* history: how the last run returned
    \* --- expandir_y_listar_archivos_para_procesar (cm.py 308-350) ---
    x_carpeta,        \* the files of the month folder, in walk order
    x_resultado,      \* resultado, the descriptors returned
    x_pc,             \* position of the expansion
    \* --- leer_archivo_generico and contar_filas_validas on a CSV ---
    c_archivo,        \* the file: its size in MB and its lines
    c_df,             \* the frame returned by leer_archivo_generico
    c_filas,          \* the result of contar_filas_validas
    c_pc,             \* position of the row count
    \* --- App.iniciar_proceso and App.cancelar_proceso ---
    a_app,            \* which program's window: "cm" or "lista"
    a_hilos,          \* the Thread objects created so far and their states
    a_worker_thread,  \* self.worker_thread: index in a_hilos, 0 for None
    a_cancel,         \* self.cancel_event
    a_clicks,         \* number of button presses handled so far
    a_ultimo,         \* history: the button pressed last
    a_umbral_var,     \* self.umbral_var, the floor shown in the window
    a_args,           \* the floor each Thread object was created with
    \* --- the expansion of a month, file by file (cm.py 314-348) ---
    s_carpeta,        \* the kinds of the files of the month, in walk order
    s_idx,            \* the file the walk has reached
    s_anidado,        \* the archive nested in the current one is pending
    s_cancel,         \* cancel_event of the run
    s_extracciones,   \* history: cancel_event at each call of extraer_archivo
    s_pc              \* position of the expansion

sanVars == <<os_name, member_filename, safe_name, target_path, ext_pc>>
trendVars == <<valor_actual, valor_base, umbral_filas_min, tendencia, trend_pc>>
matchVars == <<nombre_actual, df_mes_anterior, fila_mes_ant, match_pc>>

wkVars == <<carpeta_base, disk_xlsx, disk_csv, cancel_event, pc, corrida, ediciones,
            carpetas_mes, idx_mes, mes_anterior, df_historico, archivos,
            idx_archivo, datos_mes, ultimo_fallo, procesados, registro,
            cancelado_en, al_inicio, fin>>
scratchVars == <<temp_roots, temp_base, bloqueo, bloqueos, borrado, guard_traza,
                 resumenes, q_done, resultados_mensuales>>

listaVars == <<l_pc, l_base, l_cancel, l_corrida, l_carpetas, l_idx, l_items,
               l_file_idx, historico_data, nulos_detalle, l_temp, l_fin>>
exVars == <<x_carpeta, x_resultado, x_pc>>
cntVars == <<c_archivo, c_df, c_filas, c_pc>>
appVars == <<a_app, a_hilos, a_worker_thread, a_cancel, a_clicks, a_ultimo,
            a_umbral_var, a_args>>
stVars == <<s_carpeta, s_idx, s_anidado, s_cancel, s_extracciones, s_pc>>
auxVars == <<listaVars, exVars, cntVars, appVars, stVars>>

vars == <<sanVars, trendVars, matchVars, wkVars, scratchVars, auxVars>>

\* The parts of the state a specification does not exercise stay idle.
Unset == <<"?">>
SanIdle ==
    /\ os_name = "nt" /\ member_filename = <<>> /\ safe_name = Unset
    /\ target_path = Unset /\ ext_pc = "off"
TrendIdle ==
    /\ valor_actual = <<0, 1>> /\ valor_base = <<0, 1>> /\ umbral_filas_min = 10
    /\ tendencia = Unset /\ trend_pc = "off"
MatchIdle ==
    /\ nombre_actual = <<>> /\ df_mes_anterior = <<>> /\ fila_mes_ant = 0
    /\ match_pc = "off"
ListaIdle ==
    /\ l_pc = "off" /\ l_base = <<>> /\ l_cancel = FALSE /\ l_corrida = 0
    /\ l_carpetas = <<>> /\ l_idx = 0 /\ l_items = <<>> /\ l_file_idx = 0
    /\ historico_data = <<>> /\ nulos_detalle = <<>> /\ l_temp = {}
    /\ l_fin = "none"
ExIdle == x_carpeta = <<>> /\ x_resultado = <<>> /\ x_pc = "off"
CntIdle ==
    /\ c_archivo = [ext |-> "none", size_mb |-> 0, lineas |-> <<>>] /\ c_df = <<>>
    /\ c_filas = 0 /\ c_pc = "off"
AppIdle ==
    /\ a_app = "off" /\ a_hilos = <<>> /\ a_worker_thread = 0
    /\ a_cancel = FALSE /\ a_clicks = 0 /\ a_ultimo = "none"
    /\ a_umbral_var = 0 /\ a_args = <<>>
StIdle ==
    /\ s_carpeta = <<>> /\ s_idx = 0 /\ s_anidado = FALSE /\ s_cancel = FALSE
    /\ s_extracciones = <<>> /\ s_pc = "off"
AuxIdle == ListaIdle /\ ExIdle /\ CntIdle /\ AppIdle /\ StIdle
NoFile == [estado |-> "absent", filas |-> <<>>]
WorkerIdle ==
    /\ carpeta_base = <<>> /\ disk_xlsx = NoFile /\ disk_csv = NoFile
    /\ cancel_event = FALSE /\ pc = "off" /\ corrida = 0 /\ ediciones = 0
    /\ carpetas_mes = <<>> /\ idx_mes = 0 /\ mes_anterior = <<>>
    /\ df_historico = <<>> /\ archivos = <<>> /\ idx_archivo = 0
    /\ datos_mes = <<>> /\ ultimo_fallo = "none" /\ procesados = <<>>
    /\ registro = <<>> /\ cancelado_en = <<>> /\ al_inicio = NoFile /\ fin = "none"
    /\ temp_roots = {} /\ temp_base = FALSE /\ bloqueo = FALSE /\ bloqueos = 0
    /\ borrado = <<>> /\ guard_traza = <<>> /\ resumenes = {}
    /\ q_done = <<>> /\ resultados_mensuales = {}

(***************************************************************************)
(* Generic helpers on sequences                                            *)
(***************************************************************************)
RECURSIVE SeqsUpTo(_, _)
SeqsUpTo(S, n) ==
    IF n = 0 THEN {<<>>}
    ELSE LET shorter == SeqsUpTo(S, n - 1)
         IN  shorter \cup {Append(s, x) : s \in {t \in shorter : Len(t) = n - 1}, x \in S}

\* str.startswith(prefix)
startswith(s, prefix) ==
    /\ Len(s) >= Len(prefix)
    /\ SubSeq(s, 1, Len(prefix)) = prefix

\* str.replace(old, new) for one-character old and new
replace(s, old, new) == [i \in 1..Len(s) |-> IF s[i] = old THEN new ELSE s[i]]

\* str.lstrip(chars) for a set of characters
RECURSIVE lstrip(_, _)
lstrip(s, chars) ==
    IF s # <<>> /\ s[1] \in chars THEN lstrip(Tail(s), chars) ELSE s

\* str.split(sep) with seps a set of one-character separators: like Python's
\* split with an explicit separator, empty pieces are kept.
RECURSIVE split(_, _)
split(s, seps) ==
    LET hits == {i \in 1..Len(s) : s[i] \in seps}
    IN  IF hits = {} THEN <<s>>
        ELSE LET i == CHOOSE k \in hits : \A m \in hits : k <= m
             IN  <<SubSeq(s, 1, i - 1)>> \o split(SubSeq(s, i + 1, Len(s)), seps)

\* sep.join(parts)
RECURSIVE join(_, _)
join(sep, parts) ==
    IF parts = <<>> THEN <<>>
    ELSE IF Len(parts) = 1 THEN parts[1]
    ELSE parts[1] \o sep \o join(sep, Tail(parts))

(***************************************************************************)
(* Path Sanitizer                                                          *)
(***************************************************************************)
BS == "\\"
DotDot == <<".", ".">>

\* A mutant of the sanitizer that filters empty segments but keeps '..'.
_sanitize_keeps_dotdot(name) ==
    LET n1 == replace(name, BS, "/")
        n2 == IF startswith(n1, <<"/">>) THEN lstrip(n1, {"/"}) ELSE n1
    IN  join(<<"/">>, SelectSeq(split(n2, {"/"}), LAMBDA p : p # <<>>))

\* cm.py 143-152
_sanitize_zipinfo_name(name) ==
    LET n1 == replace(name, BS, "/")
        n2 == IF startswith(n1, <<"/">>) THEN lstrip(n1, {"/"}) ELSE n1
        parts == SelectSeq(split(n2, {"/"}), LAMBDA p : p # <<>> /\ p # DotDot)
    IN  join(<<"/">>, parts)

\* posixpath.join(a, p), as called at cm.py 246
posixpath_join(a, p) ==
    IF startswith(p, <<"/">>) THEN p
    ELSE IF a = <<>> \/ a[Len(a)] = "/" THEN a \o p
    ELSE a \o <<"/">> \o p

\* ntpath.splitdrive for names that do not start with two separators
nt_drive(p) == IF Len(p) >= 2 /\ p[2] = ":" THEN SubSeq(p, 1, 2) ELSE <<>>
nt_rest(p)  == IF Len(p) >= 2 /\ p[2] = ":" THEN SubSeq(p, 3, Len(p)) ELSE p
NtSeps == {"/", BS}

\* ntpath.join(a, p), as called at cm.py 246: a drive or a root in p
\* discards a (the drives of the model are lower case already).
ntpath_join(a, p) ==
    LET rd == nt_drive(a)
        rp == nt_rest(a)
        pd == nt_drive(p)
        pp == nt_rest(p)
    IN  IF pp # <<>> /\ pp[1] \in NtSeps
        THEN (IF pd # <<>> \/ rd = <<>> THEN pd ELSE rd) \o pp
        ELSE IF pd # <<>> /\ pd # rd
        THEN pd \o pp
        ELSE LET rp2 == IF rp # <<>> /\ rp[Len(rp)] \notin NtSeps
                        THEN rp \o <<BS>> ELSE rp
             IN  rd \o rp2 \o pp

os_path_join(os, a, p) ==
    IF os = "nt" THEN ntpath_join(a, p) ELSE posixpath_join(a, p)

\* The destination directory handed to extraer_archivo (tempdir, cm.py 326-329)
dest_dir(os) == IF os = "nt" THEN <<"c", ":", BS, "t">> ELSE <<"/", "t">>

\* Lexical resolution of a path: its drive, and its segments after '.' and
\* '..' are resolved ('..' at the root stays at the root).
RECURSIVE Resolve(_, _)
Resolve(segs, acc) ==
    IF segs = <<>> THEN acc
    ELSE IF segs[1] = <<>> \/ segs[1] = <<".">> THEN Resolve(Tail(segs), acc)
    ELSE IF segs[1] = DotDot
         THEN Resolve(Tail(segs), IF acc = <<>> THEN acc ELSE SubSeq(acc, 1, Len(acc) - 1))
    ELSE Resolve(Tail(segs), Append(acc, segs[1]))

PathDrive(os, p) == IF os = "nt" THEN nt_drive(p) ELSE <<>>
PathSegs(os, p) ==
    IF os = "nt" THEN Resolve(split(nt_rest(p), NtSeps), <<>>)
    ELSE Resolve(split(p, {"/"}), <<>>)
PathRooted(os, p) ==
    LET r == IF os = "nt" THEN nt_rest(p) ELSE p
    IN  r # <<>> /\ r[1] \in (IF os = "nt" THEN NtSeps ELSE {"/"})

\* p names dest_dir or something below it
InsideDest(os, p) ==
    LET d == dest_dir(os)
        ds == PathSegs(os, d)
        ps == PathSegs(os, p)
    IN  /\ PathDrive(os, p) = PathDrive(os, d)
        /\ PathRooted(os, p)
        /\ Len(ps) >= Len(ds)
        /\ SubSeq(ps, 1, Len(ds)) = ds

(***************************************************************************)
(* extraer_archivo: one member of a zip archive                            *)
(***************************************************************************)
MaxNameLen == 5
NameChars == {"/", BS, ".", ":", "a"}
SanOnly == UNCHANGED <<trendVars, matchVars, wkVars, scratchVars, auxVars>>

InitSanitize ==
    /\ os_name \in {"nt", "posix"}
    /\ member_filename \in SeqsUpTo(NameChars, MaxNameLen)
    /\ safe_name = Unset
    /\ target_path = Unset
    /\ ext_pc = "member"
    /\ TrendIdle /\ MatchIdle /\ WorkerIdle /\ AuxIdle

\* cm.py 243
SanitizeMember ==
    /\ ext_pc = "member"
    /\ safe_name' = _sanitize_zipinfo_name(member_filename)
    /\ ext_pc' = "sanitized"
    /\ UNCHANGED <<os_name, member_filename, target_path>>
    /\ SanOnly

\* cm.py 244-245: an entry that sanitizes to nothing is not written
SkipMember ==
    /\ ext_pc = "sanitized"
    /\ safe_name = <<>>
    /\ ext_pc' = "skipped"
    /\ UNCHANGED <<os_name, member_filename, safe_name, target_path>>
    /\ SanOnly

\* cm.py 246
JoinTarget ==
    /\ ext_pc = "sanitized"
    /\ safe_name # <<>>
    /\ target_path' = os_path_join(os_name, dest_dir(os_name), safe_name)
    /\ ext_pc' = "joined"
    /\ UNCHANGED <<os_name, member_filename, safe_name>>
    /\ SanOnly

\* What open(target_path, 'wb') accepts: the last segment must name a file,
\* and on Windows a drive prefix must be a letter followed by ':' and no
\* other ':' may occur in the path.
DriveLetters == {"a", "c"}
Writable(os, p) ==
    LET segs == split(IF os = "nt" THEN nt_rest(p) ELSE p,
                      IF os = "nt" THEN NtSeps ELSE {"/"})
        last == segs[Len(segs)]
    IN  /\ last \notin {<<>>, <<".">>, DotDot}
        /\ os = "nt" => (nt_drive(p) = <<>> \/ nt_drive(p)[1] \in DriveLetters)
        /\ os = "nt" => \A i \in 1..Len(nt_rest(p)) : nt_rest(p)[i] # ":"

\* cm.py 251-253: the entry is copied to target_path
WriteMember ==
    /\ ext_pc = "joined"
    /\ Writable(os_name, target_path)
    /\ ext_pc' = "written"
    /\ UNCHANGED <<os_name, member_filename, safe_name, target_path>>
    /\ SanOnly

\* cm.py 251, 300-301: open() raises and the extraction of the archive fails
FailMember ==
    /\ ext_pc = "joined"
    /\ ~Writable(os_name, target_path)
    /\ ext_pc' = "failed"
    /\ UNCHANGED <<os_name, member_filename, safe_name, target_path>>
    /\ SanOnly

NextSanitize ==
    SanitizeMember \/ SkipMember \/ JoinTarget \/ WriteMember \/ FailMember

SpecSanitize == InitSanitize /\ [][NextSanitize]_vars

\* C1 (as claimed): for every raw entry name the sanitized name has no
\* leading separator, no empty segment and no '..' segment, and the file
\* written for it (the name joined to the destination directory) lies inside
\* the destination directory.
SanitizedShapeOk ==
    /\ safe_name = <<>> \/ safe_name[1] \notin NtSeps
    /\ \A i \in 1..Len(split(safe_name, {"/"})) :
          /\ safe_name # <<>> => split(safe_name, {"/"})[i] # <<>>
          /\ split(safe_name, {"/"})[i] # DotDot
    /\ \A i \in 1..Len(safe_name) : safe_name[i] # BS

C1_SanitizedPathConfined ==
    /\ ext_pc \in {"sanitized", "skipped", "joined", "written"} => SanitizedShapeOk
    /\ ext_pc = "written" => InsideDest(os_name, target_path)

\* C1, the part of it that the code does establish: the shape of the
\* sanitized name (this alone does not confine the joined path).
C1_SanitizedShape ==
    ext_pc \in {"sanitized", "skipped", "joined", "written"} => SanitizedShapeOk

C1_ShapeWitness ==
    /\ ext_pc = "written"
    /\ member_filename = <<".", ".", "/", "a">>
    /\ safe_name = <<"a">>

(***************************************************************************)
(* Trend Classifier                                                        *)
(*                                                                         *)
(* Values are rationals <<numerator, denominator>> with a positive         *)
(* denominator (row counts and sizes are integers, a historical mean is a  *)
(* quotient).  A percentage is kept in hundredths, which is what           *)
(* round(x, 2) retains; None is the empty tuple.                           *)
(***************************************************************************)
None == <<>>
Abs(n) == IF n < 0 THEN -n ELSE n
RatLt(x, k) == x[1] < k * x[2]

\* round(num / den) to the nearest integer, ties to even, as round() does on
\* the exactly representable ties
RoundDiv(num, den) ==
    LET n == IF den < 0 THEN -num ELSE num
        d == Abs(den)
        q == n \div d
        r == n % d
    IN  IF 2 * r < d THEN q
        ELSE IF 2 * r > d THEN q + 1
        ELSE IF q % 2 = 0 THEN q ELSE q + 1

\* cm.py 938-939 (also 965-966, 995-996, 1025-1026):
\* round(((actual - base) / base) * 100, 2), in hundredths
porcentaje(actual, base) ==
    RoundDiv(10000 * (actual[1] * base[2] - base[1] * actual[2]), base[1] * actual[2])

\* A mutant of the classifier with exclusive upper bounds.
clasificar_exclusivo(pct, filas_actual, filas_base, umbral) ==
    IF RatLt(filas_actual, umbral) \/ RatLt(filas_base, umbral) THEN "Cambio Leve"
    ELSE IF Abs(pct) < 1000 THEN "Cambio Leve"
    ELSE IF Abs(pct) < 3000 THEN "Cambio Moderado"
    ELSE IF Abs(pct) < 5000 THEN "Cambio Alto"
    ELSE "Cambio Critico"

\* A mutant of the classifier that forces 'Cambio Leve' only when both
\* values are below the floor.
clasificar_ambos(pct, filas_actual, filas_base, umbral) ==
    IF RatLt(filas_actual, umbral) /\ RatLt(filas_base, umbral) THEN "Cambio Leve"
    ELSE IF Abs(pct) <= 1000 THEN "Cambio Leve"
    ELSE IF Abs(pct) <= 3000 THEN "Cambio Moderado"
    ELSE IF Abs(pct) <= 5000 THEN "Cambio Alto"
    ELSE "Cambio Critico"

\* cm.py 57-86
clasificar_tendencia(pct, filas_actual, filas_base, umbral) ==
    IF RatLt(filas_actual, umbral) \/ RatLt(filas_base, umbral) THEN "Cambio Leve"
    ELSE IF Abs(pct) <= 1000 THEN "Cambio Leve"
    ELSE IF Abs(pct) <= 3000 THEN "Cambio Moderado"
    ELSE IF Abs(pct) <= 5000 THEN "Cambio Alto"
    ELSE "Cambio Critico"

\* The literal 10 of the both-small shortcut
UmbralFijo == 10

\* cm.py 924-948 (row count) and 951-975 (size): comparison with the row
\* matched in the previous month
tendencia_mes_anterior(actual, ant_val, umbral) ==
    IF ant_val[1] = 0 THEN <<None, "Sin comparacion">>
    ELSE IF RatLt(ant_val, UmbralFijo) /\ RatLt(actual, UmbralFijo)
         THEN <<None, "Cambio Leve">>
    ELSE LET pct == porcentaje(actual, ant_val)
         IN  <<<<pct>>, clasificar_tendencia(pct, actual, ant_val, umbral)>>

\* cm.py 993-1005 (row count) and 1023-1035 (size): comparison with the mean
\* of the matching historical rows
tendencia_historica(actual, promedio_hist, umbral) ==
    IF promedio_hist[1] = 0 THEN <<None, "Sin comparacion">>
    ELSE LET pct == porcentaje(actual, promedio_hist)
         IN  <<<<pct>>, clasificar_tendencia(pct, actual, promedio_hist, umbral)>>

MaxVal == 24
MaxHistN == 2
Umbrales == {4, 10, 12}
TrendOnly == UNCHANGED <<sanVars, matchVars, wkVars, scratchVars, auxVars>>

InitTrend ==
    /\ valor_actual \in {<<v, 1>> : v \in 0..MaxVal}
    /\ valor_base \in {<<v, n>> : v \in 0..MaxVal, n \in 1..MaxHistN}
    /\ umbral_filas_min \in Umbrales
    /\ tendencia = Unset
    /\ trend_pc = "input"
    /\ SanIdle /\ MatchIdle /\ WorkerIdle /\ AuxIdle

\* cm.py 924-948: the reference is one row of the previous month
CompararMesAnterior ==
    /\ trend_pc = "input"
    /\ valor_base[2] = 1
    /\ tendencia' = tendencia_mes_anterior(valor_actual, valor_base, umbral_filas_min)
    /\ trend_pc' = "mes_anterior"
    /\ UNCHANGED <<valor_actual, valor_base, umbral_filas_min>>
    /\ TrendOnly

\* cm.py 978-1005: the reference is the mean of the matching historical rows
CompararHistorico ==
    /\ trend_pc = "input"
    /\ tendencia' = tendencia_historica(valor_actual, valor_base, umbral_filas_min)
    /\ trend_pc' = "historico"
    /\ UNCHANGED <<valor_actual, valor_base, umbral_filas_min>>
    /\ TrendOnly

NextTrend == CompararMesAnterior \/ CompararHistorico

SpecTrend == InitTrend /\ [][NextTrend]_vars

Compared == trend_pc \in {"mes_anterior", "historico"}
BelowFloor(x) == RatLt(x, umbral_filas_min)

Bucket(p) ==
    IF Abs(p) <= 1000 THEN "Cambio Leve"
    ELSE IF Abs(p) <= 3000 THEN "Cambio Moderado"
    ELSE IF Abs(p) <= 5000 THEN "Cambio Alto"
    ELSE "Cambio Critico"

lower_char(c) == CASE c = "A" -> "a" [] c = "B" -> "b" [] OTHER -> c
lower(s) == [i \in 1..Len(s) |-> lower_char(s[i])]

\* Length of the common run of a and b that starts at a[i], b[j] and stays
\* below ahi, bhi
RECURSIVE RunLen(_, _, _, _, _, _)
RunLen(a, b, i, j, ahi, bhi) ==
    IF i < ahi /\ j < bhi /\ a[i] = b[j]
    THEN 1 + RunLen(a, b, i + 1, j + 1, ahi, bhi)
    ELSE 0

\* difflib.SequenceMatcher.find_longest_match without junk: the longest
\* common block of a[alo..ahi-1] and b[blo..bhi-1], the one starting earliest
\* in a and, among those, earliest in b
find_longest_match(a, b, alo, ahi, blo, bhi) ==
    LET starts == (alo..(ahi - 1)) \X (blo..(bhi - 1))
        k(st) == RunLen(a, b, st[1], st[2], ahi, bhi)
    IN  IF starts = {} THEN <<alo, blo, 0>>
        ELSE LET best == CHOOSE st \in starts :
                     \A other \in starts :
                         \/ k(st) > k(other)
                         \/ /\ k(st) = k(other)
                            /\ \/ st[1] < other[1]
                               \/ st[1] = other[1] /\ st[2] <= other[2]
             IN  <<best[1], best[2], k(best)>>

\* Sum of the sizes of SequenceMatcher.get_matching_blocks()
RECURSIVE matches(_, _, _, _, _, _)
matches(a, b, alo, ahi, blo, bhi) ==
    LET m == find_longest_match(a, b, alo, ahi, blo, bhi)
    IN  IF m[3] = 0 THEN 0
        ELSE m[3] + matches(a, b, alo, m[1], blo, m[2])
                  + matches(a, b, m[1] + m[3], ahi, m[2] + m[3], bhi)

\* cm.py 53-54: SequenceMatcher(None, a.lower(), b.lower()).ratio(), the
\* rational <<2 * matches, len(a) + len(b)>>
calcular_similitud(a, b) ==
    <<2 * matches(lower(a), lower(b), 1, Len(a) + 1, 1, Len(b) + 1), Len(a) + Len(b)>>

RatGeq(x, y) == x[1] * y[2] >= y[1] * x[2]

\* A mutant of the acceptance test with a strict comparison.
sim_aceptada_estricta(sim) == sim[1] * 10 > 8 * sim[2]

\* cm.py 920: _sim >= 0.8
sim_aceptada(sim) == sim[1] * 10 >= 8 * sim[2]

\* A mutant of the look-up that ranks by similarity before looking for the
\* exact name.
buscar_por_similitud(pool, nombre) ==
    LET idx == 1..Len(pool)
        sim(i) == calcular_similitud(pool[i], nombre)
        top == {i \in idx : \A j \in idx : RatGeq(sim(i), sim(j))}
    IN  IF idx = {} THEN {0}
        ELSE {IF sim_aceptada(sim(i)) THEN i ELSE 0 : i \in top}

\* cm.py 910-921: the rows that can become fila_mes_ant (0 stands for None).
\* sort_values leaves the order of equal similarities to the sort algorithm,
\* so every row of maximal similarity can come first.
buscar_fila_mes_ant(pool, nombre) ==
    LET idx == 1..Len(pool)
        exact == {i \in idx : pool[i] = nombre}
        sim(i) == calcular_similitud(pool[i], nombre)
        top == {i \in idx : \A j \in idx : RatGeq(sim(i), sim(j))}
    IN  IF idx = {} THEN {0}
        ELSE IF exact # {} THEN {CHOOSE i \in exact : \A j \in exact : i >= j}
        ELSE {IF sim_aceptada(sim(i)) THEN i ELSE 0 : i \in top}

MaxPool == 3
FileNames ==
    { <<"a", "b">>, <<"A", "B">>, <<"a", "b", "c">>, <<"a", "b", "d">>,
      <<"b">>, <<"a", "b", "c", "d">> }
MatchOnly == UNCHANGED <<sanVars, trendVars, wkVars, scratchVars, auxVars>>

InitMatch ==
    /\ nombre_actual \in FileNames
    /\ df_mes_anterior \in SeqsUpTo(FileNames, MaxPool)
    /\ fila_mes_ant = 0
    /\ match_pc = "input"
    /\ SanIdle /\ TrendIdle /\ WorkerIdle /\ AuxIdle

\* cm.py 910-921
BuscarMesAnterior ==
    /\ match_pc = "input"
    /\ fila_mes_ant' \in buscar_fila_mes_ant(df_mes_anterior, nombre_actual)
    /\ match_pc' = "done"
    /\ UNCHANGED <<nombre_actual, df_mes_anterior>>
    /\ MatchOnly

NextMatch == BuscarMesAnterior

SpecMatch == InitMatch /\ [][NextMatch]_vars

Score(i) == calcular_similitud(df_mes_anterior[i], nombre_actual)
ExactRows == {i \in 1..Len(df_mes_anterior) : df_mes_anterior[i] = nombre_actual}

\* C8: a candidate that has exactly the current name is chosen (the last
\* recorded one among duplicates) whatever the scores of the others;
\* otherwise a candidate of the highest score is chosen if and only if that
\* score is at least 0.8; otherwise there is no match.
C8_ResolutionOrder ==
    match_pc = "done" =>
        /\ ExactRows # {} =>
              /\ fila_mes_ant \in ExactRows
              /\ \A i \in ExactRows : i <= fila_mes_ant
        /\ ExactRows = {} =>
              /\ fila_mes_ant # 0 <=>
                    \E i \in 1..Len(df_mes_anterior) : 5 * Score(i)[1] >= 4 * Score(i)[2]
              /\ fila_mes_ant # 0 =>
                    \A i \in 1..Len(df_mes_anterior) :
                        Score(fila_mes_ant)[1] * Score(i)[2] >= Score(i)[1] * Score(fila_mes_ant)[2]

\* The exact name is recorded first and a differently-cased name of score
\* 1.0 after it: the exact row is the one chosen.
C8_Witness ==
    /\ match_pc = "done"
    /\ nombre_actual = <<"a", "b">>
    /\ df_mes_anterior = <<<<"a", "b">>, <<"A", "B">>, <<"a", "b", "c">>>>
    /\ fila_mes_ant = 1

\* A score of exactly 0.8 ("ab" against "abc") is accepted.
C8_WitnessThreshold ==
    /\ match_pc = "done"
    /\ nombre_actual = <<"a", "b">>
    /\ df_mes_anterior = <<<<"b">>, <<"a", "b", "c">>>>
    /\ fila_mes_ant = 2

(***************************************************************************)
(* The base folder                                                         *)
(*                                                                         *)
(* A period folder is named by six digits MMYYYY.  A file carries what the *)
(* readers would find in it: its size in KB and its count of valid rows    *)
(* (contar_filas_validas of leer_archivo_generico), or that it cannot be   *)
(* read as a table.  An archive carries its members.                       *)
(***************************************************************************)
T1123 == <<1, 1, 2, 0, 2, 3>>
T1223 == <<1, 2, 2, 0, 2, 3>>
T0124 == <<0, 1, 2, 0, 2, 4>>
Tokens == {T1123, T1223, T0124}

File(n, kb, filas, legible) ==
    [tipo |-> "file", nombre |-> n, kb |-> kb, filas |-> filas,
     legible |-> legible, miembros |-> <<>>]
Zip(n, kb, miembros) ==
    [tipo |-> "zip", nombre |-> n, kb |-> kb, filas |-> 0,
     legible |-> FALSE, miembros |-> miembros]

Folder(cont) == [existe |-> TRUE, cont |-> cont]
NoFolder == [existe |-> FALSE, cont |-> <<>>]

ContA == <<File(<<"a", "b">>, 12, 20, TRUE)>>
ContB == <<File(<<"a", "b">>, 12, 30, TRUE), File(<<"a", "b", "c">>, 30, 8, TRUE)>>
ContZ == <<Zip(<<"z">>, 9, <<File(<<"a", "b">>, 5, 12, TRUE)>>)>>
ContX == <<File(<<"b">>, 3, 0, FALSE)>>
Contenidos == {<<>>, ContA, ContB, ContZ, ContX}

Mundo(c1, c2, c3) == (T1123 :> c1) @@ (T1223 :> c2) @@ (T0124 :> c3)
Mundos ==
    { Mundo(Folder(ContA), Folder(ContB), Folder(ContZ)),
      Mundo(Folder(ContB), Folder(ContA), NoFolder),
      Mundo(NoFolder, Folder(ContZ), Folder(ContB)),
      Mundo(Folder(ContX), NoFolder, Folder(<<>>)),
      Mundo(NoFolder, NoFolder, NoFolder) }

(***************************************************************************)
(* buscar_carpetas_mes                                                     *)
(***************************************************************************)
\* Order of str on names of equal length: the first differing digit decides
LexLess(a, b) ==
    \E i \in 1..Len(a) : a[i] < b[i] /\ \A j \in 1..(i - 1) : a[j] = b[j]

\* The calendar position of MMYYYY
Chrono(t) ==
    (t[3] * 1000 + t[4] * 100 + t[5] * 10 + t[6]) * 12 + (t[1] * 10 + t[2])

\* list.sort() on a set of names
RECURSIVE sort(_)
sort(S) ==
    IF S = {} THEN <<>>
    ELSE LET m == CHOOSE x \in S : \A y \in S : x = y \/ LexLess(x, y)
         IN  <<m>> \o sort(S \ {m})

\* cm.py 103-110: the sub-directories named by six digits, sorted
buscar_carpetas_mes(cb) ==
    sort({t \in DOMAIN cb : cb[t].existe /\ Len(t) = 6})

(***************************************************************************)
(* expandir_y_listar_archivos_para_procesar, for folders whose archives    *)
(* hold plain files                                                        *)
(***************************************************************************)
Descriptor(path, nombre, kb, filas, legible) ==
    [path |-> path, nombre |-> nombre, kb |-> kb, filas |-> filas, legible |-> legible]

\* cm.py 334-343: one descriptor per extracted member; the size shown is the
\* size of item['original'], the archive (cm.py 824)
DescriptoresDe(z) ==
    [i \in 1..Len(z.miembros) |->
        Descriptor(z.miembros[i].nombre, z.miembros[i].nombre, z.kb,
                   z.miembros[i].filas, z.miembros[i].legible)]

\* cm.py 314-350: falla[i] tells what the storage does while archive i is
\* expanded: "ok", "mkdir" (a full disk when tempdir is created, cm.py 327:
\* the OSError leaves the function) or "write" (a full disk while an entry is
\* written, cm.py 251-252: extraer_archivo turns it into a RuntimeError,
\* cm.py 300-301, and the archive itself is listed, cm.py 330-332).
RECURSIVE expandir(_, _, _)
expandir(cont, falla, i) ==
    IF i > Len(cont) THEN [error |-> FALSE, resultado |-> <<>>]
    ELSE LET f == cont[i]
             rest == expandir(cont, falla, i + 1)
             here == IF f.tipo = "zip"
                     THEN IF falla[i] = "write"
                          THEN <<Descriptor(f.nombre, f.nombre, f.kb, 0, FALSE)>>
                          ELSE DescriptoresDe(f)
                     ELSE <<Descriptor(f.nombre, f.nombre, f.kb, f.filas, f.legible)>>
         IN  IF f.tipo = "zip" /\ falla[i] = "mkdir"
             THEN [error |-> TRUE, resultado |-> <<>>]
             ELSE [error |-> rest.error, resultado |-> here \o rest.resultado]

\* The storage behaviours an expansion of cont can meet
Fallas(cont) ==
    [1..Len(cont) -> {"ok", "mkdir", "write"}]

FallaVista(cont, falla) ==
    IF \E i \in 1..Len(cont) : cont[i].tipo = "zip" /\ falla[i] = "mkdir" THEN "mkdir"
    ELSE IF \E i \in 1..Len(cont) : cont[i].tipo = "zip" /\ falla[i] = "write" THEN "write"
    ELSE "none"

\* A mutant of the name filter that keeps every descriptor.
sin_filtrar(items, vistos) == items

\* cm.py 787-794: the first descriptor of each base name
RECURSIVE sin_duplicados(_, _)
sin_duplicados(items, vistos) ==
    IF items = <<>> THEN <<>>
    ELSE IF items[1].path \in vistos THEN sin_duplicados(Tail(items), vistos)
    ELSE <<items[1]>> \o sin_duplicados(Tail(items), vistos \cup {items[1].path})

(***************************************************************************)
(* Rows of the ledger                                                      *)
(*                                                                         *)
(* A ledger row holds the columns of columnas_historico (cm.py 1103-1113). *)
(* The field corrida is a history field: the run that produced the row.    *)
(***************************************************************************)
NaN == <<"n", "a", "n">>

RECURSIVE Suma(_, _)
Suma(filas, campo) ==
    IF filas = <<>> THEN 0 ELSE filas[1][campo] + Suma(Tail(filas), campo)

\* cm.py 981-985 (and 1011-1015): rows of other months whose name equals or
\* resembles the current name
df_similares(df, mes, nombre) ==
    SelectSeq(df, LAMBDA r :
        /\ r.mes # mes
        /\ \/ r.nombre = nombre
           \/ sim_aceptada(calcular_similitud(r.nombre, nombre)))

\* cm.py 978-1005 and 1008-1035, on the column campo
tendencia_hist_de(df, mes, nombre, actual, campo, umbral) ==
    LET sims == df_similares(df, mes, nombre)
    IN  IF sims = <<>> THEN <<None, "Sin comparacion">>
        ELSE tendencia_historica(<<actual, 1>>, <<Suma(sims, campo), Len(sims)>>, umbral)

\* cm.py 884-1055, 1103-1115: the ledger row of one inventory row
fila_historico(df, row, anterior, umbral, run) ==
    LET th == IF anterior = None THEN <<None, "Sin comparacion">>
              ELSE tendencia_hist_de(df, row.mes, row.nombre, row.filas, "filas", umbral)
        tp == IF anterior = None THEN <<None, "Sin comparacion">>
              ELSE tendencia_hist_de(df, row.mes, row.nombre, row.kb, "kb", umbral)
    IN  [corr |-> row.corr, nombre |-> row.nombre, kb |-> row.kb,
         filas |-> row.filas, mes |-> row.mes,
         th_pct |-> th[1], th_clas |-> th[2],
         tp_pct |-> tp[1], tp_clas |-> tp[2], corrida |-> run]

\* A mutant of the merge that appends without purging the period.
upsert_sin_purga(df, mes, nuevas) ==
    IF nuevas = <<>> THEN df ELSE df \o nuevas

\* cm.py 1097-1117: the rows of the period are replaced by the new ones,
\* unless there is no new row
upsert_periodo(df, mes, nuevas) ==
    IF nuevas = <<>> THEN df
    ELSE SelectSeq(df, LAMBDA r : r.mes # mes) \o nuevas

\* DataFrame.to_excel / to_csv, then pd.read_excel: an empty percentage
\* (None or NaN) is written as an empty cell and read back as NaN
to_excel(df) == [estado |-> "ok", filas |-> df]
read_excel(f) ==
    [i \in 1..Len(f.filas) |->
        [f.filas[i] EXCEPT
            !.th_pct = IF @ = None THEN NaN ELSE @,
            !.tp_pct = IF @ = None THEN NaN ELSE @]]

(***************************************************************************)
(* worker_procesar                                                         *)
(***************************************************************************)
MaxRuns == 2
MaxEdits == 1
SinAnterior == [mes |-> None, anterior |-> None]
SinRegistro ==
    [corrida |-> 0, entrada |-> <<>>, completo |-> FALSE, limpio |-> FALSE,
     filas |-> <<>>]
SinBorrado == [que |-> "none", intentos |-> 0, ok |-> TRUE]
MaxLocks == 1

\* A mutant of the removal that leaves the directory in place.
rmtree_sin_efecto(roots, mes, locked) == roots

\* shutil.rmtree of the scratch directory of one month: while a lock is
\* held the removal fails and the directory stays
rmtree(roots, mes, locked) == IF locked THEN roots ELSE roots \ {mes}

\* cm.py 154-180: every sub-directory but the most recent one is removed,
\* errors ignored
limpiar_temp_antiguos(roots, reciente, locked) ==
    IF locked THEN roots ELSE roots \cap {reciente}

\* cm.py 798-803 and 1124-1129: the month's scratch is removed with one call
\* of shutil.rmtree inside try/except; a failure is logged as a warning
BorrarTempMes(mes) ==
    /\ temp_roots' = rmtree(temp_roots, mes, bloqueo)
    /\ borrado' = [que |-> "mes", intentos |-> 1, ok |-> ~bloqueo]
WkOnly == UNCHANGED <<sanVars, trendVars, matchVars, auxVars>>

Init ==
    /\ carpeta_base \in Mundos
    /\ disk_xlsx = NoFile /\ disk_csv = NoFile
    /\ cancel_event = FALSE /\ pc = "idle" /\ corrida = 0 /\ ediciones = 0
    /\ carpetas_mes = <<>> /\ idx_mes = 0 /\ mes_anterior = SinAnterior
    /\ df_historico = <<>> /\ archivos = <<>> /\ idx_archivo = 0
    /\ datos_mes = <<>> /\ ultimo_fallo = "none" /\ procesados = <<>>
    /\ registro = [t \in Tokens |-> SinRegistro]
    /\ cancelado_en = None /\ al_inicio = NoFile /\ fin = "none"
    /\ temp_roots = {} /\ temp_base = FALSE /\ bloqueo = FALSE /\ bloqueos = 0
    /\ borrado = SinBorrado /\ guard_traza = <<>> /\ resumenes = {}
    /\ q_done = <<>> /\ resultados_mensuales = {}
    /\ SanIdle /\ TrendIdle /\ MatchIdle /\ AuxIdle

\* cm.py 1343-1354 and 703-708: the driver clears the event and starts the
\* worker
IniciarWorker ==
    /\ pc = "idle"
    /\ corrida < MaxRuns
    /\ corrida' = corrida + 1
    /\ cancel_event' = FALSE
    /\ pc' = "preguntar"
    /\ carpetas_mes' = <<>> /\ idx_mes' = 0 /\ mes_anterior' = SinAnterior
    /\ df_historico' = <<>> /\ archivos' = <<>> /\ idx_archivo' = 0
    /\ datos_mes' = <<>> /\ ultimo_fallo' = "none" /\ procesados' = <<>>
    /\ cancelado_en' = None /\ al_inicio' = disk_xlsx /\ fin' = "running"
    /\ UNCHANGED <<carpeta_base, disk_xlsx, disk_csv, ediciones, registro>>
    /\ borrado' = SinBorrado /\ guard_traza' = <<>> /\ resumenes' = {}
    /\ q_done' = <<>> /\ resultados_mensuales' = {}
    /\ UNCHANGED <<temp_roots, temp_base, bloqueo, bloqueos>>
    /\ WkOnly

\* What the operator and mover_a_backup_escritorio do with one existing
\* historical file: "no" declines, "moved" moves it to the backup, "kept" is
\* a move that failed (cm.py 634-636), which leaves the file in place
Respuestas(f) == IF f.estado = "absent" THEN {"skip"} ELSE {"no", "moved", "kept"}

\* cm.py 710-713 with 642-662: the prompts about the two historical files
PreguntarDuplicados ==
    /\ pc = "preguntar"
    /\ \E rx \in Respuestas(disk_xlsx), rc \in Respuestas(disk_csv) :
          /\ disk_xlsx' = IF rx = "moved" THEN NoFile ELSE disk_xlsx
          /\ disk_csv' = IF rx # "no" /\ rc = "moved" THEN NoFile ELSE disk_csv
          /\ pc' = IF rx = "no" \/ rc = "no" THEN "idle" ELSE "buscar"
          /\ fin' = IF rx = "no" \/ rc = "no" THEN "declined" ELSE fin
    /\ UNCHANGED <<carpeta_base, cancel_event, corrida, ediciones, carpetas_mes,
                   idx_mes, mes_anterior, df_historico, archivos, idx_archivo,
                   datos_mes, ultimo_fallo, procesados, registro, cancelado_en,
                   al_inicio>>
    /\ UNCHANGED scratchVars
    /\ WkOnly

\* cm.py 715-739: list the month folders, return if there is none, otherwise
\* load the ledger (an unreadable file gives an empty ledger)
BuscarYCargar ==
    /\ pc = "buscar"
    /\ carpetas_mes' = buscar_carpetas_mes(carpeta_base)
    /\ IF carpetas_mes' = <<>>
       THEN /\ pc' = "idle" /\ fin' = "no_months"
            /\ q_done' = Append(q_done, None)
            /\ UNCHANGED <<df_historico, idx_mes, temp_base>>
       ELSE /\ pc' = "mes" /\ idx_mes' = 1
            /\ temp_base' = TRUE
            /\ df_historico' = IF disk_xlsx.estado = "ok" THEN read_excel(disk_xlsx)
                               ELSE <<>>
            /\ UNCHANGED <<fin, q_done>>
    /\ UNCHANGED <<carpeta_base, disk_xlsx, disk_csv, cancel_event, corrida,
                   ediciones, mes_anterior, archivos, idx_archivo, datos_mes,
                   ultimo_fallo, procesados, registro, cancelado_en, al_inicio>>
    /\ UNCHANGED <<temp_roots, bloqueo, bloqueos, borrado, guard_traza, resumenes,
                   resultados_mensuales>>
    /\ WkOnly

\* The default of the parameter umbral_filas_min of worker_procesar
umbral_defecto == 10

mes_carpeta == carpetas_mes[idx_mes]

\* History: every earlier month of this run was read completely
LimpioHasta(i) ==
    \A k \in 1..(i - 1) :
        /\ registro[carpetas_mes[k]].corrida = corrida
        /\ registro[carpetas_mes[k]].limpio

\* cm.py 743-758: head of the loop over the months.  After the last month,
\* or when the cancellation is seen here, the loop is left for the save.
IniciarMes ==
    /\ pc = "mes"
    /\ IF idx_mes > Len(carpetas_mes) \/ cancel_event
       THEN /\ pc' = "guardar"
            /\ UNCHANGED <<procesados, temp_roots>>
       ELSE /\ pc' = "expandir"
            /\ procesados' = Append(procesados, mes_carpeta)
            /\ temp_roots' = temp_roots \cup {mes_carpeta}
    /\ UNCHANGED <<carpeta_base, disk_xlsx, disk_csv, cancel_event, corrida,
                   ediciones, carpetas_mes, idx_mes, mes_anterior, df_historico,
                   archivos, idx_archivo, datos_mes, ultimo_fallo, registro,
                   cancelado_en, al_inicio, fin>>
    /\ guard_traza' = <<>>
    /\ UNCHANGED <<temp_base, bloqueo, bloqueos, borrado, resumenes>>
    /\ UNCHANGED <<q_done, resultados_mensuales>>
    /\ WkOnly

\* cm.py 761-803: one attempt to expand the month.  An OSError with
\* winerror 112 goes to manejar_error_espacio; a month without files is
\* skipped after removing its scratch; otherwise the loop over the files
\* begins.
Expandir ==
    /\ pc = "expandir"
    /\ \E falla \in Fallas(carpeta_base[mes_carpeta].cont) :
          LET cont == carpeta_base[mes_carpeta].cont
              r == expandir(cont, falla, 1)
              lista == sin_duplicados(r.resultado, {})
          IN  /\ ultimo_fallo' = FallaVista(cont, falla)
              /\ IF r.error
                 THEN /\ pc' = "espacio"
                      /\ guard_traza' = <<"SpaceExhausted">>
                      /\ UNCHANGED <<archivos, idx_archivo, datos_mes, idx_mes,
                                     registro, temp_roots, borrado>>
                 ELSE IF lista = <<>>
                 THEN /\ pc' = "mes"
                      /\ idx_mes' = idx_mes + 1
                      /\ registro' = [registro EXCEPT ![mes_carpeta] =
                            [corrida |-> corrida, entrada |-> cont, completo |-> TRUE,
                             limpio |-> LimpioHasta(idx_mes),
                             filas |-> SelectSeq(df_historico,
                                                 LAMBDA x : x.mes = mes_carpeta)]]
                      /\ BorrarTempMes(mes_carpeta)
                      /\ guard_traza' = <<>>
                      /\ UNCHANGED <<archivos, idx_archivo, datos_mes>>
                 ELSE /\ pc' = "archivo"
                      /\ archivos' = lista
                      /\ idx_archivo' = 1
                      /\ datos_mes' = <<>>
                      /\ guard_traza' = <<>>
                      /\ UNCHANGED <<idx_mes, registro, temp_roots, borrado>>
    /\ UNCHANGED <<carpeta_base, disk_xlsx, disk_csv, cancel_event, corrida,
                   ediciones, carpetas_mes, mes_anterior, df_historico,
                   procesados, cancelado_en, al_inicio, fin>>
    /\ UNCHANGED <<temp_base, bloqueo, bloqueos, resumenes>>
    /\ UNCHANGED <<q_done, resultados_mensuales>>
    /\ WkOnly

\* cm.py 188-202 with 770-780: manejar_error_espacio removes the old
\* scratch directories and reads the free space.  With more than 200 MB
\* free it answers "continuar": the worker empties temp_root and tries the
\* expansion again.  Otherwise the operator is asked.
LimpiarYVerificar ==
    /\ pc = "espacio"
    /\ temp_roots' = limpiar_temp_antiguos(temp_roots, mes_carpeta, bloqueo)
                        \cup {mes_carpeta}
    /\ \E libre \in BOOLEAN :
          IF libre
          THEN /\ pc' = "expandir"
               /\ guard_traza' = guard_traza \o <<"Cleaning", "check", "Retrying">>
          ELSE /\ pc' = "liberar"
               /\ guard_traza' = guard_traza \o <<"Cleaning", "check">>
    /\ UNCHANGED <<carpeta_base, disk_xlsx, disk_csv, cancel_event, corrida,
                   ediciones, carpetas_mes, idx_mes, mes_anterior, df_historico,
                   archivos, idx_archivo, datos_mes, ultimo_fallo, procesados,
                   registro, cancelado_en, al_inicio, fin>>
    /\ UNCHANGED <<temp_base, bloqueo, bloqueos, borrado, resumenes>>
    /\ UNCHANGED <<q_done, resultados_mensuales>>
    /\ WkOnly

\* cm.py 204-229 with 770-783: the operator either frees space by hand and
\* accepts, and manejar_error_espacio answers "continuar", or declines:
\* temp_root is removed (errors ignored), the answer is "terminar" and the
\* worker returns
ResponderLiberar ==
    /\ pc = "liberar"
    /\ \E respuesta \in BOOLEAN :
          IF respuesta
          THEN /\ pc' = "expandir"
               /\ guard_traza' = guard_traza \o <<"ManualWait", "Retrying">>
               /\ UNCHANGED <<fin, temp_roots>>
          ELSE /\ pc' = "idle"
               /\ fin' = "sin_espacio"
               /\ guard_traza' = guard_traza \o <<"Aborted">>
               /\ temp_roots' = rmtree(temp_roots, mes_carpeta, bloqueo)
    /\ UNCHANGED <<carpeta_base, disk_xlsx, disk_csv, cancel_event, corrida,
                   ediciones, carpetas_mes, idx_mes, mes_anterior, df_historico,
                   archivos, idx_archivo, datos_mes, ultimo_fallo, procesados,
                   registro, cancelado_en, al_inicio>>
    /\ UNCHANGED <<temp_base, bloqueo, bloqueos, borrado, resumenes>>
    /\ UNCHANGED <<q_done, resultados_mensuales>>
    /\ WkOnly

\* cm.py 810-874: one file of the month is read and its inventory row added
LeerArchivo ==
    /\ pc = "archivo"
    /\ ~cancel_event
    /\ LET item == archivos[idx_archivo]
       IN  datos_mes' = Append(datos_mes,
              [corr |-> Len(datos_mes) + 1, nombre |-> item.nombre, kb |-> item.kb,
               filas |-> IF item.legible THEN item.filas ELSE 0,
               mes |-> mes_carpeta])
    /\ idx_archivo' = idx_archivo + 1
    /\ pc' = IF idx_archivo = Len(archivos) THEN "cerrar" ELSE "archivo"
    /\ UNCHANGED <<carpeta_base, disk_xlsx, disk_csv, cancel_event, corrida,
                   ediciones, carpetas_mes, idx_mes, mes_anterior, df_historico,
                   archivos, ultimo_fallo, procesados, registro, cancelado_en,
                   al_inicio, fin>>
    /\ UNCHANGED scratchVars
    /\ WkOnly

\* cm.py 810-813: the cancellation is seen before a file; the loop over the
\* files is left
CancelacionEnMes ==
    /\ pc = "archivo"
    /\ cancel_event
    /\ pc' = "cerrar"
    /\ cancelado_en' = <<mes_carpeta>>
    /\ UNCHANGED <<carpeta_base, disk_xlsx, disk_csv, cancel_event, corrida,
                   ediciones, carpetas_mes, idx_mes, mes_anterior, df_historico,
                   archivos, idx_archivo, datos_mes, ultimo_fallo, procesados,
                   registro, al_inicio, fin>>
    /\ UNCHANGED scratchVars
    /\ WkOnly

\* cm.py 876-1129: the trends of the rows gathered for the month, then the
\* merge into the ledger
CerrarMes ==
    /\ pc = "cerrar"
    /\ LET ant == IF idx_mes > 1 THEN <<carpetas_mes[idx_mes - 1]>> ELSE None
           nuevas == [i \in 1..Len(datos_mes) |->
                        fila_historico(df_historico, datos_mes[i], ant,
                                       umbral_defecto, corrida)]
           df == upsert_periodo(df_historico, mes_carpeta, nuevas)
       IN  /\ mes_anterior' = [mes |-> mes_carpeta, anterior |-> ant]
           /\ df_historico' = df
           /\ registro' = [registro EXCEPT ![mes_carpeta] =
                 [corrida |-> corrida, entrada |-> carpeta_base[mes_carpeta].cont,
                  completo |-> cancelado_en = None /\ ultimo_fallo = "none",
                  limpio |-> /\ cancelado_en = None /\ ultimo_fallo = "none"
                             /\ LimpioHasta(idx_mes),
                  filas |-> SelectSeq(df, LAMBDA x : x.mes = mes_carpeta)]]
    /\ idx_mes' = idx_mes + 1
    /\ pc' = "mes"
    /\ UNCHANGED <<carpeta_base, disk_xlsx, disk_csv, cancel_event, corrida,
                   ediciones, carpetas_mes, archivos, idx_archivo, datos_mes,
                   ultimo_fallo, procesados, cancelado_en, al_inicio, fin>>
    /\ resumenes' = resumenes \cup {mes_carpeta}
    /\ resultados_mensuales' = IF datos_mes # <<>>
                               THEN resultados_mensuales \cup {mes_carpeta}
                               ELSE resultados_mensuales
    /\ UNCHANGED q_done
    /\ BorrarTempMes(mes_carpeta)
    /\ UNCHANGED <<temp_base, bloqueo, bloqueos, guard_traza>>
    /\ WkOnly

\* The ways the two writes of cm.py 1134-1136 can end: both done; to_excel
\* refused before it touched the file; to_excel interrupted; to_csv refused
\* after the workbook was written
Escrituras == {"ok", "xlsx_denegado", "xlsx_parcial", "csv_denegado"}
Corrupt == [estado |-> "corrupt", filas |-> <<>>]

\* cm.py 1131-1141: the ledger is written to the two files, first the
\* workbook and then the csv, straight onto their final paths; a failure is
\* logged
GuardarHistorico ==
    /\ pc = "guardar"
    /\ \E w \in Escrituras :
          /\ disk_xlsx' = IF w = "xlsx_denegado" THEN disk_xlsx
                          ELSE IF w = "xlsx_parcial" THEN Corrupt
                          ELSE to_excel(df_historico)
          /\ disk_csv' = IF w = "ok" THEN to_excel(df_historico) ELSE disk_csv
          /\ fin' = IF w = "ok" THEN "guardado" ELSE "no_guardado"
    /\ pc' = "borrar_base"
    /\ borrado' = [que |-> "base", intentos |-> 0, ok |-> FALSE]
    /\ UNCHANGED <<carpeta_base, cancel_event, corrida, ediciones, carpetas_mes,
                   idx_mes, mes_anterior, df_historico, archivos, idx_archivo,
                   datos_mes, ultimo_fallo, procesados, registro, cancelado_en,
                   al_inicio>>
    /\ UNCHANGED <<temp_roots, temp_base, bloqueo, bloqueos, guard_traza, resumenes>>
    /\ UNCHANGED <<q_done, resultados_mensuales>>
    /\ WkOnly

\* The number of attempts of rmtree_safe (range(5))
Reintentos == 5

\* cm.py 125-141 called at 1143-1148, then 1152: one turn of the loop of
\* rmtree_safe on temp_root_base.  An absent directory or a removal that
\* works returns True; a removal that fails sleeps and takes the next turn;
\* after the last turn the answer is False.  Either answer is only logged,
\* and the worker reports the end of the run.
rmtree_safe ==
    /\ pc = "borrar_base"
    /\ IF ~temp_base
       THEN /\ borrado' = [borrado EXCEPT !.ok = TRUE]
            /\ pc' = "idle"
            /\ UNCHANGED <<temp_base, temp_roots>>
       ELSE IF ~bloqueo
       THEN /\ borrado' = [borrado EXCEPT !.intentos = @ + 1, !.ok = TRUE]
            /\ temp_base' = FALSE
            /\ temp_roots' = {}
            /\ pc' = "idle"
       ELSE /\ borrado' = [borrado EXCEPT !.intentos = @ + 1]
            /\ pc' = IF borrado.intentos + 1 = Reintentos THEN "idle" ELSE "borrar_base"
            /\ UNCHANGED <<temp_base, temp_roots>>
    /\ UNCHANGED <<carpeta_base, disk_xlsx, disk_csv, cancel_event, corrida,
                   ediciones, carpetas_mes, idx_mes, mes_anterior, df_historico,
                   archivos, idx_archivo, datos_mes, ultimo_fallo, procesados,
                   registro, cancelado_en, al_inicio, fin>>
    /\ q_done' = IF pc' = "idle"
                 THEN Append(q_done, <<Cardinality(resultados_mensuales)>>)
                 ELSE q_done
    /\ UNCHANGED <<bloqueo, bloqueos, guard_traza, resumenes, resultados_mensuales>>
    /\ WkOnly

\* Another program (an antivirus scan, an open viewer) takes a lock on an
\* entry of the scratch while the worker uses it, and releases it later
Bloquear ==
    /\ pc \in {"expandir", "archivo", "cerrar", "espacio", "liberar", "guardar",
               "borrar_base"}
    /\ temp_base
    /\ ~bloqueo
    /\ bloqueos < MaxLocks
    /\ bloqueo' = TRUE
    /\ bloqueos' = bloqueos + 1
    /\ UNCHANGED <<wkVars, temp_roots, temp_base, borrado, guard_traza, resumenes>>
    /\ UNCHANGED <<q_done, resultados_mensuales>>
    /\ WkOnly

Desbloquear ==
    /\ bloqueo
    /\ bloqueo' = FALSE
    /\ UNCHANGED <<wkVars, temp_roots, temp_base, bloqueos, borrado, guard_traza,
                   resumenes>>
    /\ UNCHANGED <<q_done, resultados_mensuales>>
    /\ WkOnly

\* cm.py 1362-1366: the cancel event is set while the worker runs
CancelEventSet ==
    /\ pc \in {"mes", "expandir", "archivo"}
    /\ ~cancel_event
    /\ cancel_event' = TRUE
    /\ UNCHANGED <<carpeta_base, disk_xlsx, disk_csv, pc, corrida, ediciones,
                   carpetas_mes, idx_mes, mes_anterior, df_historico, archivos,
                   idx_archivo, datos_mes, ultimo_fallo, procesados, registro,
                   cancelado_en, al_inicio, fin>>
    /\ UNCHANGED scratchVars
    /\ WkOnly

\* Between two runs the operator changes the content of a month folder
Ediciones == {<<>>, ContA}
EnvEdit ==
    /\ pc = "idle"
    /\ corrida >= 1
    /\ ediciones < MaxEdits
    /\ \E t \in Tokens, c \in Ediciones :
          /\ carpeta_base[t].existe
          /\ carpeta_base[t].cont # c
          /\ carpeta_base' = [carpeta_base EXCEPT ![t] = Folder(c)]
    /\ ediciones' = ediciones + 1
    /\ UNCHANGED <<disk_xlsx, disk_csv, cancel_event, pc, corrida, carpetas_mes,
                   idx_mes, mes_anterior, df_historico, archivos, idx_archivo,
                   datos_mes, ultimo_fallo, procesados, registro, cancelado_en,
                   al_inicio, fin>>
    /\ UNCHANGED scratchVars
    /\ WkOnly

Next ==
    \/ IniciarWorker
    \/ PreguntarDuplicados
    \/ BuscarYCargar
    \/ IniciarMes
    \/ Expandir
    \/ LimpiarYVerificar
    \/ ResponderLiberar
    \/ LeerArchivo
    \/ CancelacionEnMes
    \/ CerrarMes
    \/ GuardarHistorico
    \/ rmtree_safe
    \/ CancelEventSet
    \/ EnvEdit

Spec == Init /\ [][Next]_vars

\* One run of the worker, the last one of a base folder that has no ledger
\* yet, in an environment where another program may lock the scratch
ContD ==
    <<File(<<"a", "b">>, 12, 20, TRUE),
      Zip(<<"z">>, 9, <<File(<<"a", "b">>, 5, 12, TRUE), File(<<"a", "b", "c">>, 5, 8, TRUE)>>)>>
MundosScratch ==
    Mundos \cup {Mundo(Folder(ContZ), Folder(ContA), Folder(ContB)),
                 Mundo(Folder(ContD), NoFolder, NoFolder)}

InitScratch ==
    /\ carpeta_base \in MundosScratch
    /\ disk_xlsx = NoFile /\ disk_csv = NoFile
    /\ cancel_event = FALSE /\ pc = "idle" /\ corrida = MaxRuns - 1 /\ ediciones = 0
    /\ carpetas_mes = <<>> /\ idx_mes = 0 /\ mes_anterior = SinAnterior
    /\ df_historico = <<>> /\ archivos = <<>> /\ idx_archivo = 0
    /\ datos_mes = <<>> /\ ultimo_fallo = "none" /\ procesados = <<>>
    /\ registro = [t \in Tokens |-> SinRegistro]
    /\ cancelado_en = None /\ al_inicio = NoFile /\ fin = "none"
    /\ temp_roots = {} /\ temp_base = FALSE /\ bloqueo = FALSE /\ bloqueos = 0
    /\ borrado = SinBorrado /\ guard_traza = <<>> /\ resumenes = {}
    /\ q_done = <<>> /\ resultados_mensuales = {}
    /\ SanIdle /\ TrendIdle /\ MatchIdle /\ AuxIdle

NextScratch == Next \/ Bloquear \/ Desbloquear

SpecScratch == InitScratch /\ [][NextScratch]_vars

(***************************************************************************)
(* Properties of the worker                                                *)
(***************************************************************************)
Range(f) == {f[i] : i \in DOMAIN f}
FilasDe(df, mes) == SelectSeq(df, LAMBDA r : r.mes = mes)
FilasFuera(df, mes) == SelectSeq(df, LAMBDA r : r.mes # mes)

\* A row without its history field; an empty percentage is the same cell
\* whether it is None or NaN
Celdas(r) ==
    <<r.corr, r.nombre, r.kb, r.filas, r.mes,
      IF r.th_pct = NaN THEN None ELSE r.th_pct, r.th_clas,
      IF r.tp_pct = NaN THEN None ELSE r.tp_pct, r.tp_clas>>
Inventario(r) == <<r.corr, r.nombre, r.kb, r.filas, r.mes>>
CeldasDe(df) == [i \in 1..Len(df) |-> Celdas(df[i])]
InventarioDe(df) == [i \in 1..Len(df) |-> Inventario(df[i])]

RunReturnedAfterSave == pc = "idle" /\ fin \in {"guardado", "no_guardado"}

\* C2: when the cancellation was seen while the files of a month were being
\* read, the ledger of the returned run holds no row this run produced for
\* that month or for a later month.
C2_CancelDiscardsPeriod ==
    (RunReturnedAfterSave /\ cancelado_en # None) =>
        \A r \in Range(df_historico) :
            r.corrida = corrida =>
                \E i, j \in 1..Len(carpetas_mes) :
                    /\ carpetas_mes[i] = r.mes
                    /\ carpetas_mes[j] = cancelado_en[1]
                    /\ i < j

\* A month is closed for the second time: its previous processing and this
\* one both read every file of the same content, without cancellation and
\* without a storage fault
Reprocessed ==
    /\ pc = "cerrar"
    /\ registro[mes_carpeta].corrida > 0
    /\ registro[mes_carpeta].completo
    /\ registro[mes_carpeta].entrada = carpeta_base[mes_carpeta].cont
    /\ registro'[mes_carpeta].completo

\* Nothing in the base folder was changed since the first run, and both
\* runs read every file of every month up to this one
SameBase ==
    /\ ediciones = 0
    /\ registro[mes_carpeta].limpio
    /\ registro'[mes_carpeta].limpio

\* C3 (as claimed): processing a month again with identical inputs leaves
\* the same rows for that month in the ledger as the first processing did,
\* and leaves the rows of every other month unchanged.
C3_IdempotentUpsert ==
    [][(Reprocessed /\ SameBase) =>
          /\ CeldasDe(FilasDe(df_historico', mes_carpeta))
                = CeldasDe(registro[mes_carpeta].filas)
          /\ FilasFuera(df_historico', mes_carpeta)
                = FilasFuera(df_historico, mes_carpeta)]_vars

\* C3 (amended): processing a month again with identical inputs leaves rows
\* for that month with the same ordinal, name, size, row count and month as
\* the first processing did, and leaves the rows of every other month
\* unchanged; the historical trend columns may differ.
C3_IdempotentInventory ==
    [][Reprocessed =>
          /\ InventarioDe(FilasDe(df_historico', mes_carpeta))
                = InventarioDe(registro[mes_carpeta].filas)
          /\ FilasFuera(df_historico', mes_carpeta)
                = FilasFuera(df_historico, mes_carpeta)]_vars

\* A second run has closed again a month the loaded ledger already held,
\* next to loaded rows of another month
C3_Witness ==
    /\ pc = "mes" /\ corrida = 2 /\ ediciones = 0
    /\ cancelado_en = None /\ ultimo_fallo = "none"
    /\ mes_anterior.mes # None
    /\ \E r \in Range(al_inicio.filas) : r.mes = mes_anterior.mes
    /\ \E r \in Range(df_historico) : r.mes = mes_anterior.mes /\ r.corrida = 2
    /\ \E r \in Range(df_historico) : r.mes # mes_anterior.mes /\ r.corrida = 1
    /\ registro[mes_anterior.mes].completo

\* C4: every row of the ledger was produced by the most recent processing
\* of its month.
C4_SingleGeneration ==
    \A r \in Range(df_historico) : r.corrida = registro[r.mes].corrida

\* C5: the rows the previous run saved are the ledger after the load, and
\* those of months this run did not process are in the file this run saves.
C5_LedgerPersists ==
    /\ (pc = "mes" /\ idx_mes = 1 /\ al_inicio.estado = "ok") =>
            CeldasDe(df_historico) = CeldasDe(al_inicio.filas)
    /\ (pc = "idle" /\ fin = "guardado" /\ al_inicio.estado = "ok") =>
            \A r \in Range(al_inicio.filas) :
                r.mes \notin Range(procesados) =>
                    \E x \in Range(disk_xlsx.filas) : Celdas(x) = Celdas(r)

\* The month of carpetas_mes that comes last before mes in the calendar
AnteriorCronologico(mes) ==
    LET antes == {t \in Range(carpetas_mes) : Chrono(t) < Chrono(mes)}
    IN  IF antes = {} THEN None
        ELSE <<CHOOSE t \in antes : \A u \in antes : Chrono(u) <= Chrono(t)>>

\* C9: the months are processed in calendar order, and the month used as
\* previous month is the latest month before the current one.
C9_ChronologicalOrder ==
    /\ \A i, j \in 1..Len(procesados) :
            i < j => Chrono(procesados[i]) < Chrono(procesados[j])
    /\ mes_anterior.mes # None =>
            mes_anterior.anterior = AnteriorCronologico(mes_anterior.mes)

\* C10: an attempt to expand a month that met a full disk, while creating an
\* extraction directory or while writing an entry, ends in
\* manejar_error_espacio.
C10_SpaceGuardEntered ==
    [][(pc = "expandir" /\ pc' # "expandir" /\ ultimo_fallo' # "none")
          => pc' = "espacio"]_vars

(***************************************************************************)
(* Properties of the space handling and of the scratch directories         *)
(***************************************************************************)
\* C11: every "Retrying" of the space handling comes right after a reading
\* of the free space, and the handling starts from "SpaceExhausted".
C11_RecheckBeforeRetry ==
    /\ guard_traza # <<>> => guard_traza[1] = "SpaceExhausted"
    /\ \A i \in 1..Len(guard_traza) :
          guard_traza[i] = "Retrying" => (i > 1 /\ guard_traza[i - 1] = "check")

C14_BoundedRetry ==
    /\ borrado.intentos <= Reintentos
    /\ (borrado.que = "base" /\ borrado.ok) => ~temp_base
    /\ (borrado.que # "none" /\ pc # "borrar_base" /\ ~borrado.ok) =>
            borrado.intentos = Reintentos

(***************************************************************************)
(* Properties of the save of the ledger                                    *)
(***************************************************************************)
\* C15: a save of the ledger that fails leaves historico_completo.xlsx and
\* historico_completo.csv as they were before it.
C15_SaveAtomic ==
    [][(pc = "guardar" /\ fin' = "no_guardado") =>
            UNCHANGED <<disk_xlsx, disk_csv>>]_vars

(***************************************************************************)
(* procesar_carpeta_base of "Lista Archivos" (lista.py)                    *)
(*                                                                         *)
(* The helpers buscar_carpetas_mes, extraer_archivo and                    *)
(* expandir_y_listar_archivos_para_procesar of lista.py are the ones of    *)
(* cm.py.  The size column of the inventory is left out.                   *)
(***************************************************************************)
ListaOnly ==
    UNCHANGED <<sanVars, trendVars, matchVars, wkVars, scratchVars, exVars,
                cntVars, appVars, stVars>>

InitLista ==
    /\ l_pc = "idle" /\ l_base \in Mundos /\ l_cancel = FALSE /\ l_corrida = 0
    /\ l_carpetas = <<>> /\ l_idx = 0 /\ l_items = <<>> /\ l_file_idx = 0
    /\ historico_data = <<>> /\ nulos_detalle = <<>> /\ l_temp = {}
    /\ l_fin = "none"
    /\ SanIdle /\ TrendIdle /\ MatchIdle /\ WorkerIdle
    /\ ExIdle /\ CntIdle /\ AppIdle /\ StIdle

\* lista.py 708-717 and 472-490: the thread is started with the event
\* cleared; the function lists the months and creates temp_root
ListaIniciar ==
    /\ l_pc = "idle"
    /\ l_corrida < MaxRuns
    /\ l_corrida' = l_corrida + 1
    /\ l_cancel' = FALSE
    /\ l_carpetas' = buscar_carpetas_mes(l_base)
    /\ l_idx' = 1
    /\ l_items' = <<>> /\ l_file_idx' = 0
    /\ historico_data' = <<>> /\ nulos_detalle' = <<>>
    /\ l_pc' = "mes"
    /\ l_fin' = "running"
    /\ UNCHANGED <<l_base, l_temp>>
    /\ ListaOnly

\* lista.py 536-554: the inventory and the error detail are written when
\* they are not empty, and limpiar_temp_antiguos keeps the most recent
\* sub-directory of temp_root
MasReciente(dirs) ==
    IF dirs = {} THEN {}
    ELSE {l_carpetas[CHOOSE i \in 1..Len(l_carpetas) :
              /\ l_carpetas[i] \in dirs
              /\ \A j \in (i + 1)..Len(l_carpetas) : l_carpetas[j] \notin dirs]}

\* lista.py 493-499 and 536-555: head of the loop over the months.  After
\* the last month the results are saved; on cancellation the function
\* returns at once; otherwise the month is expanded (a full disk at the
\* creation of an extraction directory leaves the function as an exception,
\* logged by _proceso_hilo, lista.py 745-746).
ListaMes ==
    /\ l_pc = "mes"
    /\ IF l_idx > Len(l_carpetas)
       THEN /\ l_pc' = "idle" /\ l_fin' = "completo"
            /\ l_temp' = MasReciente(l_temp)
            /\ UNCHANGED <<l_items, l_file_idx, l_idx>>
       ELSE IF l_cancel
       THEN /\ l_pc' = "idle" /\ l_fin' = "cancelado"
            /\ UNCHANGED <<l_items, l_file_idx, l_idx, l_temp>>
       ELSE \E falla \in Fallas(l_base[l_carpetas[l_idx]].cont) :
              LET cont == l_base[l_carpetas[l_idx]].cont
                  r == expandir(cont, falla, 1)
                  extraido == \E i \in 1..Len(cont) :
                                 cont[i].tipo = "zip" /\ falla[i] # "mkdir"
              IN  /\ l_temp' = IF extraido THEN l_temp \cup {l_carpetas[l_idx]}
                               ELSE l_temp
                  /\ IF r.error
                     THEN /\ l_pc' = "idle" /\ l_fin' = "error"
                          /\ UNCHANGED <<l_items, l_file_idx, l_idx>>
                     ELSE IF r.resultado = <<>>
                     THEN /\ l_idx' = l_idx + 1
                          /\ UNCHANGED <<l_pc, l_fin, l_items, l_file_idx>>
                     ELSE /\ l_pc' = "archivo"
                          /\ l_items' = r.resultado
                          /\ l_file_idx' = 1
                          /\ UNCHANGED <<l_fin, l_idx>>
    /\ UNCHANGED <<l_base, l_cancel, l_corrida, l_carpetas, historico_data,
                   nulos_detalle>>
    /\ ListaOnly

\* lista.py 501-533: one descriptor of the month.  On cancellation the
\* function returns; a file that is read gives an inventory row, a file
\* whose reading raises gives a row of the error detail.
ListaArchivo ==
    /\ l_pc = "archivo"
    /\ IF l_cancel
       THEN /\ l_pc' = "idle" /\ l_fin' = "cancelado"
            /\ UNCHANGED <<historico_data, nulos_detalle, l_file_idx, l_idx>>
       ELSE LET item == l_items[l_file_idx]
                mes == l_carpetas[l_idx]
                ultimo == l_file_idx = Len(l_items)
            IN  /\ IF item.legible
                   THEN /\ historico_data' = Append(historico_data,
                              [mes |-> mes, nombre |-> item.nombre, filas |-> item.filas])
                        /\ UNCHANGED nulos_detalle
                   ELSE /\ nulos_detalle' = Append(nulos_detalle,
                              [mes |-> mes, nombre |-> item.nombre])
                        /\ UNCHANGED historico_data
                /\ l_file_idx' = l_file_idx + 1
                /\ l_pc' = IF ultimo THEN "mes" ELSE "archivo"
                /\ l_idx' = IF ultimo THEN l_idx + 1 ELSE l_idx
                /\ UNCHANGED l_fin
    /\ UNCHANGED <<l_base, l_cancel, l_corrida, l_carpetas, l_items, l_temp>>
    /\ ListaOnly

\* lista.py 719-722: the cancel event is set while the thread runs
ListaCancelar ==
    /\ l_pc \in {"mes", "archivo"}
    /\ ~l_cancel
    /\ l_cancel' = TRUE
    /\ UNCHANGED <<l_pc, l_base, l_corrida, l_carpetas, l_idx, l_items, l_file_idx,
                   historico_data, nulos_detalle, l_temp, l_fin>>
    /\ ListaOnly

NextLista == ListaIniciar \/ ListaMes \/ ListaArchivo \/ ListaCancelar

SpecLista == InitLista /\ [][NextLista]_vars

\* C13: when a month has been processed its extraction directories are
\* gone before the next month starts, and none is left when the run
\* returns.
C13_ScopedScratch ==
    /\ l_pc = "mes" =>
          \A k \in 1..(l_idx - 1) : k <= Len(l_carpetas) => l_carpetas[k] \notin l_temp
    /\ (l_pc = "idle" /\ l_fin # "none") => l_temp = {}

\* C16: a file whose reading failed has an inventory entry with a row
\* count of 0 next to its entry in the error detail.
C16_FailedFileListed ==
    \A i \in 1..Len(nulos_detalle) :
        \E j \in 1..Len(historico_data) :
            /\ historico_data[j].mes = nulos_detalle[i].mes
            /\ historico_data[j].nombre = nulos_detalle[i].nombre
            /\ historico_data[j].filas = 0

(***************************************************************************)
(* expandir_y_listar_archivos_para_procesar on a month folder that holds   *)
(* one archive and one plain file                                          *)
(*                                                                         *)
(* Names are sequences of characters.  ".zip" stands for the characters of *)
(* one of the extensions of ARCHIVE_EXT (cm.py 30) and "__MACOSX" for the  *)
(* characters of that word.  Files are listed in the order in which they   *)
(* were written; the order in which os.walk lists a directory does not     *)
(* change how many descriptors a file receives.                            *)
(***************************************************************************)
ExtZip == ".zip"

\* cm.py 116-118
is_archive_path(p) == p # <<>> /\ p[Len(p)] = ExtZip

\* os.path.basename and os.path.dirname of a sanitized relative path
basename(p) == LET segs == split(p, {"/"}) IN segs[Len(segs)]
dirname(p) ==
    LET segs == split(p, {"/"}) IN join(<<"/">>, SubSeq(segs, 1, Len(segs) - 1))

\* ZipInfo.is_dir(), cm.py 248: the entry name ends with '/'; the directory
\* entries of a tar archive (not member.isreg(), cm.py 257) are written
\* the same way
is_dir(nombre) == nombre # <<>> /\ nombre[Len(nombre)] = "/"

\* cm.py 336-337: bn.startswith(".") or bn.upper().startswith("__MACOSX")
oculto(bn) == bn # <<>> /\ bn[1] \in {".", ExtZip, "__MACOSX"}

\* A path is a directory (the month folder <<>>, the extraction directory
\* of an archive, or that of an archive nested in it) and a relative path
Ruta(raiz, rel) == [raiz |-> raiz, rel |-> rel]
\* cm.py 331, 343, 348: the descriptor dictionaries
Descr(path, original, internal_path) ==
    [path |-> path, original |-> original, internal_path |-> internal_path]

RECURSIVE Aplanar(_)
Aplanar(ss) == IF ss = <<>> THEN <<>> ELSE ss[1] \o Aplanar(Tail(ss))

RECURSIVE Unicos(_, _)
Unicos(ps, vistos) ==
    IF ps = <<>> THEN <<>>
    ELSE IF ps[1] \in vistos THEN Unicos(Tail(ps), vistos)
    ELSE <<ps[1]>> \o Unicos(Tail(ps), vistos \cup {ps[1]})

\* A mutant of the extraction that also returns the directory entries.
extraido_con_directorios(m) ==
    LET safe_n == _sanitize_zipinfo_name(m.nombre)
    IN  IF safe_n = <<>> THEN <<>> ELSE <<safe_n>>

\* cm.py 242-253: what one entry of a zip archive adds to extraidos
extraido(m) ==
    LET safe_n == _sanitize_zipinfo_name(m.nombre)
    IN  IF safe_n = <<>> \/ is_dir(m.nombre) THEN <<>> ELSE <<safe_n>>

\* cm.py 259-264: the tar branch does not test safe_name; for an empty one
\* target_path is dest_dir itself and open(target_path, 'wb') raises
tar_falla(z) ==
    /\ z.formato = "tar"
    /\ \E k \in 1..Len(z.miembros) :
          /\ ~is_dir(z.miembros[k].nombre)
          /\ _sanitize_zipinfo_name(z.miembros[k].nombre) = <<>>

\* cm.py 231-302: an archive that cannot be opened or unpacked raises
\* (roto), and so does any failure while an entry is written (cm.py
\* 300-301); otherwise the paths written are returned, relative to dest_dir
extraer_archivo(z) ==
    IF z.roto \/ tar_falla(z) THEN [error |-> TRUE, extraidos |-> <<>>]
    ELSE [error |-> FALSE,
          extraidos |-> Aplanar([k \in 1..Len(z.miembros) |-> extraido(z.miembros[k])])]

\* The files of the extraction directory of z, and the entry a file was
\* written from (a later entry of the same name overwrites an earlier one)
en_disco(z) == Unicos(extraer_archivo(z).extraidos, {})
miembro_en(z, q) ==
    z.miembros[CHOOSE i \in 1..Len(z.miembros) :
                  /\ extraido(z.miembros[i]) = <<q>>
                  /\ \A j \in (i + 1)..Len(z.miembros) : extraido(z.miembros[j]) # <<q>>]

\* What every nested archive that can be unpacked holds
Interior == <<<<"c">>>>

\* cm.py 314-348 in the recursive call of line 341: one file q found by
\* os.walk in the extraction directory of z
de_caminado(z, q) ==
    LET full == Ruta(<<z.nombre>>, q)
    IN  IF is_archive_path(q)
        THEN IF miembro_en(z, q).roto
             THEN <<Descr(full, full, <<>>)>>
             ELSE [k \in 1..Len(Interior) |->
                      Descr(Ruta(<<z.nombre, q>>, Interior[k]), full, Interior[k])]
        ELSE <<Descr(full, full, <<>>)>>

\* cm.py 341: expandir_y_listar_archivos_para_procesar(os.path.dirname(p)),
\* which walks dir and everything below it
bajo(dir, p) == dir = <<>> \/ startswith(p, dir \o <<"/">>)
listar_directorio(z, dir) ==
    LET caminados == SelectSeq(en_disco(z), LAMBDA p : bajo(dir, p))
    IN  Aplanar([k \in 1..Len(caminados) |-> de_caminado(z, caminados[k])])

\* cm.py 334-343: one extracted path p of the archive z
de_extraido(z, p) ==
    IF oculto(basename(p)) THEN <<>>
    ELSE IF is_archive_path(p) THEN listar_directorio(z, dirname(p))
    ELSE <<Descr(Ruta(<<z.nombre>>, p), Ruta(<<>>, z.nombre), p)>>

\* cm.py 318-348: one file of the month folder
de_archivo(f) ==
    LET full == Ruta(<<>>, f.nombre)
    IN  IF is_archive_path(f.nombre)
        THEN LET r == extraer_archivo(f)
             IN  IF r.error THEN <<Descr(full, full, <<>>)>>
                 ELSE Aplanar([k \in 1..Len(r.extraidos) |-> de_extraido(f, r.extraidos[k])])
        ELSE <<Descr(full, full, <<>>)>>

\* cm.py 308-350
expandir_y_listar_archivos_para_procesar(carpeta) ==
    Aplanar([k \in 1..Len(carpeta) |-> de_archivo(carpeta[k])])

MaxEntries == 3
EntryNames ==
    { <<"a">>, <<"b">>, <<"d", "/">>, <<"d", "/", "a">>, <<".", "a">>,
      <<".", ".">>, <<"/">>, <<"n", ExtZip>>, <<"m", ExtZip>> }
Entradas ==
    {[nombre |-> n, roto |-> r] : n \in EntryNames, r \in BOOLEAN} \
        {e \in [nombre : EntryNames, roto : {TRUE}] : ~is_archive_path(e.nombre)}
Formatos == {"zip", "tar"}
Contenedor(formato, roto, miembros) ==
    [nombre |-> <<"z", ExtZip>>, formato |-> formato, roto |-> roto,
     miembros |-> miembros]
Suelto == [nombre |-> <<"f">>, formato |-> "none", roto |-> FALSE, miembros |-> <<>>]

ExOnly ==
    UNCHANGED <<sanVars, trendVars, matchVars, wkVars, scratchVars, listaVars,
                cntVars, appVars, stVars>>

InitExpand ==
    /\ x_carpeta \in {<<Contenedor(f, r, ms), Suelto>> :
                         f \in Formatos, r \in BOOLEAN,
                         ms \in SeqsUpTo(Entradas, MaxEntries)}
    /\ x_resultado = <<>>
    /\ x_pc = "listo"
    /\ SanIdle /\ TrendIdle /\ MatchIdle /\ WorkerIdle
    /\ ListaIdle /\ CntIdle /\ AppIdle /\ StIdle

\* cm.py 308-350
ExpandirMes ==
    /\ x_pc = "listo"
    /\ x_resultado' = expandir_y_listar_archivos_para_procesar(x_carpeta)
    /\ x_pc' = "hecho"
    /\ UNCHANGED x_carpeta
    /\ ExOnly

NextExpand == ExpandirMes

SpecExpand == InitExpand /\ [][NextExpand]_vars

Veces(path) ==
    Cardinality({i \in 1..Len(x_resultado) : x_resultado[i].path = path})
DeContenedor == {i \in 1..Len(x_resultado) : x_resultado[i].path.raiz # <<>>}
EntradasArchivo(z) == {i \in 1..Len(z.miembros) : ~is_dir(z.miembros[i].nombre)}
EntradasDirectorio(z) == {i \in 1..Len(z.miembros) : is_dir(z.miembros[i].nombre)}

\* No two file entries of z are written to the same path
SinRepetidos(z) == Len(en_disco(z)) = Len(extraer_archivo(z).extraidos)

\* C17: an archive whose extraction fails, in the month folder or nested in
\* another archive, is listed exactly once as itself, with an empty internal
\* path; nothing is listed from inside it; the other files of the month
\* are still listed.
C17_FailedArchiveOnce ==
    x_pc = "hecho" =>
        LET z == x_carpeta[1]
        IN  /\ z.roto =>
                  (/\ Veces(Ruta(<<>>, z.nombre)) = 1
                   /\ \A i \in 1..Len(x_resultado) :
                         x_resultado[i].path = Ruta(<<>>, z.nombre)
                             => x_resultado[i].internal_path = <<>>
                   /\ DeContenedor = {})
            /\ (~z.roto /\ SinRepetidos(z)) =>
                  \A q \in Range(en_disco(z)) :
                      (is_archive_path(q) /\ ~oculto(basename(q)) /\ miembro_en(z, q).roto)
                          => (/\ Veces(Ruta(<<z.nombre>>, q)) = 1
                              /\ \A i \in 1..Len(x_resultado) :
                                    x_resultado[i].path.raiz # <<z.nombre, q>>)
            /\ Veces(Ruta(<<>>, Suelto.nombre)) = 1

\* C18 (as claimed): an archive with N file entries and M directory entries
\* gives exactly N descriptors, whatever the entry names.
C18_DescriptorCount ==
    (x_pc = "hecho" /\ ~x_carpeta[1].roto) =>
        Cardinality(DeContenedor) = Cardinality(EntradasArchivo(x_carpeta[1]))

\* The file entries whose name is kept by the sanitizer, whose base name is
\* not hidden and that are not themselves archives
Llanas(z) ==
    \A i \in EntradasArchivo(z) :
        LET safe_n == _sanitize_zipinfo_name(z.miembros[i].nombre)
        IN  safe_n # <<>> /\ ~oculto(basename(safe_n)) /\ ~is_archive_path(safe_n)

\* C18 (amended): an archive with N file entries and M directory entries
\* gives exactly N descriptors when every file entry has a name that the
\* sanitizer does not empty, a base name that does not start with "." or
\* "__MACOSX", and no archive extension.
C18_DescriptorCountPlain ==
    (x_pc = "hecho" /\ ~x_carpeta[1].roto /\ Llanas(x_carpeta[1])) =>
        Cardinality(DeContenedor) = Cardinality(EntradasArchivo(x_carpeta[1]))

C18_Witness ==
    /\ x_pc = "hecho" /\ ~x_carpeta[1].roto /\ Llanas(x_carpeta[1])
    /\ Cardinality(EntradasArchivo(x_carpeta[1])) = 2
    /\ Cardinality(EntradasDirectorio(x_carpeta[1])) = 1
    /\ Cardinality(DeContenedor) = 2

(***************************************************************************)
(* Row count of a delimited text file                                      *)
(*                                                                         *)
(* A file is its extension, its size and its lines: a header followed by   *)
(* lines that are blank (<<>>) or hold two cells, each empty (None) or a   *)
(* value.  For a .xls workbook the lines are the rows of its first sheet,  *)
(* which may have none.                                                    *)
(***************************************************************************)
MaxLines == 3
UmbralStreamingMB == 10
Cabecera == <<<<"a">>, <<"b">>>>
Lineas == {<<>>, <<None, None>>, <<<<"1">>, None>>, <<<<"1">>, <<"2">>>>}
Tamanos == {UmbralStreamingMB - 1, UmbralStreamingMB, UmbralStreamingMB + 1}

\* pd.read_csv (cm.py 371): the first line that is not blank is the header,
\* every later line that is not blank is a row; a cell without characters
\* is NaN
read_csv(lineas) ==
    LET llenas == SelectSeq(lineas, LAMBDA l : l # <<>>)
    IN  IF llenas = <<>> THEN <<>> ELSE Tail(llenas)

\* df.dropna(how='all') (cm.py 694)
dropna_all(df) == SelectSeq(df, LAMBDA r : \E k \in 1..Len(r) : r[k] # None)

\* cm.py 361-376: above 10 MB the lines of a CSV are counted and the count
\* minus one is returned in the column __filas__; otherwise the file is
\* parsed.  cm.py 379-387: for a .xls workbook of any size the number of
\* rows of the first sheet minus one is returned in __filas__.
leer_archivo_generico(archivo) ==
    IF archivo.ext = "xls"
    THEN [rapido |-> TRUE, filas |-> Len(archivo.lineas) - 1, df |-> <<>>]
    ELSE IF archivo.size_mb > UmbralStreamingMB
    THEN [rapido |-> TRUE, filas |-> Len(archivo.lineas) - 1, df |-> <<>>]
    ELSE [rapido |-> FALSE, filas |-> 0, df |-> read_csv(archivo.lineas)]

\* cm.py 686-697
contar_filas_validas(df) ==
    IF df.rapido THEN df.filas ELSE Len(dropna_all(df.df))

CntOnly ==
    UNCHANGED <<sanVars, trendVars, matchVars, wkVars, scratchVars, listaVars,
                exVars, appVars, stVars>>

InitCount ==
    /\ c_archivo \in
          {[ext |-> "csv", size_mb |-> mb, lineas |-> <<Cabecera>> \o ls] :
              mb \in Tamanos, ls \in SeqsUpTo(Lineas, MaxLines)}
          \cup {[ext |-> "xls", size_mb |-> mb, lineas |-> h] :
                   mb \in Tamanos, h \in SeqsUpTo(Lineas \ {<<>>}, MaxLines)}
    /\ c_df = <<>>
    /\ c_filas = 0
    /\ c_pc = "leer"
    /\ SanIdle /\ TrendIdle /\ MatchIdle /\ WorkerIdle
    /\ ListaIdle /\ ExIdle /\ AppIdle /\ StIdle

\* cm.py 828
LeerGenerico ==
    /\ c_pc = "leer"
    /\ c_df' = <<leer_archivo_generico(c_archivo)>>
    /\ c_pc' = "contar"
    /\ UNCHANGED <<c_archivo, c_filas>>
    /\ CntOnly

\* cm.py 845
ContarFilas ==
    /\ c_pc = "contar"
    /\ c_filas' = contar_filas_validas(c_df[1])
    /\ c_pc' = "contado"
    /\ UNCHANGED <<c_archivo, c_df>>
    /\ CntOnly

NextCount == LeerGenerico \/ ContarFilas

SpecCount == InitCount /\ [][NextCount]_vars

\* The count the other mode gives for the same lines
EnOtroModo(archivo) ==
    contar_filas_validas(leer_archivo_generico(
        [archivo EXCEPT !.size_mb =
            IF archivo.size_mb > UmbralStreamingMB THEN UmbralStreamingMB
            ELSE UmbralStreamingMB + 1]))

\* C19: the row count of a delimited text file is the same whether the file
\* is counted by the streaming mode or parsed in full.
C19_SameCountBothModes ==
    (c_pc = "contado" /\ c_archivo.ext = "csv") => c_filas = EnOtroModo(c_archivo)

(***************************************************************************)
(* The windows of the two programs: the start and cancel buttons           *)
(***************************************************************************)
MaxClicks == 5

AppOnly ==
    UNCHANGED <<sanVars, trendVars, matchVars, wkVars, scratchVars, listaVars,
                exVars, cntVars, stVars>>

\* cm.py 1239-1250, lista.py 598-606
InitApp ==
    /\ a_app \in {"cm", "lista"}
    /\ a_hilos = <<>>
    /\ a_worker_thread = 0
    /\ a_cancel = FALSE
    /\ a_clicks = 0
    /\ a_ultimo = "none"
    /\ a_umbral_var = umbral_defecto
    /\ a_args = <<>>
    /\ SanIdle /\ TrendIdle /\ MatchIdle /\ WorkerIdle
    /\ ListaIdle /\ ExIdle /\ CntIdle /\ StIdle

\* _proceso_hilo of lista.py takes no floor
SinUmbral == 0

\* self.worker_thread and self.worker_thread.is_alive()
worker_thread_is_alive ==
    a_worker_thread # 0 /\ a_hilos[a_worker_thread] = "alive"

\* cm.py 1320-1359: after the duplicates dialog and the test of
\* self.worker_thread, a thread is created and started, and
\* self.worker_thread is then bound to a second thread that is not started.
\* lista.py 708-717: after the test, a thread is created, kept in
\* self.worker_thread and started.
iniciar_proceso ==
    /\ a_clicks < MaxClicks
    /\ a_clicks' = a_clicks + 1
    /\ a_ultimo' = "iniciar"
    /\ \E acepta \in (IF a_app = "cm" THEN BOOLEAN ELSE {TRUE}) :
          IF ~acepta \/ worker_thread_is_alive
          THEN UNCHANGED <<a_hilos, a_worker_thread, a_cancel, a_args>>
          ELSE /\ a_cancel' = FALSE
               /\ a_hilos' = IF a_app = "cm" THEN a_hilos \o <<"alive", "new">>
                             ELSE Append(a_hilos, "alive")
               /\ a_args' = IF a_app = "cm"
                            THEN a_args \o <<umbral_defecto, a_umbral_var>>
                            ELSE Append(a_args, SinUmbral)
               /\ a_worker_thread' = Len(a_hilos')
    /\ UNCHANGED <<a_app, a_umbral_var>>
    /\ AppOnly

\* cm.py 1362-1366, lista.py 719-722
cancelar_proceso ==
    /\ a_clicks < MaxClicks
    /\ a_clicks' = a_clicks + 1
    /\ a_ultimo' = "cancelar"
    /\ a_cancel' = IF worker_thread_is_alive THEN TRUE ELSE a_cancel
    /\ UNCHANGED <<a_app, a_hilos, a_worker_thread, a_umbral_var, a_args>>
    /\ AppOnly

\* worker_procesar (cm.py 703-1152) or _proceso_hilo (lista.py 724-746)
\* returns
TerminaHilo ==
    /\ \E i \in 1..Len(a_hilos) :
          /\ a_hilos[i] = "alive"
          /\ a_hilos' = [a_hilos EXCEPT ![i] = "done"]
    /\ UNCHANGED <<a_app, a_worker_thread, a_cancel, a_clicks, a_ultimo, a_umbral_var,
                   a_args>>
    /\ AppOnly

\* cm.py 1269-1272: the operator changes the floor in the spin box
spin_umbral ==
    /\ a_app = "cm"
    /\ a_clicks < MaxClicks
    /\ a_clicks' = a_clicks + 1
    /\ a_ultimo' = "umbral"
    /\ \E u \in Umbrales \ {a_umbral_var} : a_umbral_var' = u
    /\ UNCHANGED <<a_app, a_hilos, a_worker_thread, a_cancel, a_args>>
    /\ AppOnly

NextApp == iniciar_proceso \/ cancelar_proceso \/ spin_umbral \/ TerminaHilo

SpecApp == InitApp /\ [][NextApp]_vars

\* C20: at any time at most one worker thread is running.
C20_SingleWorker ==
    Cardinality({i \in 1..Len(a_hilos) : a_hilos[i] = "alive"}) <= 1

\* C21: a press of the cancel button while a worker thread runs sets the
\* cancel signal.
C21_CancelSignalSet ==
    [][(/\ a_clicks' = a_clicks + 1
        /\ a_ultimo' = "cancelar"
        /\ \E i \in 1..Len(a_hilos) : a_hilos[i] = "alive") => a_cancel']_vars

(***************************************************************************)
(* The expansion of a month, one file of the walk at a time, while the     *)
(* cancel event can be set by the window's thread                          *)
(*                                                                         *)
(* A file of the month is a plain file ("suelto"), an archive of plain     *)
(* files ("zip") or an archive that holds one nested archive ("zipzip").   *)
(***************************************************************************)
MaxFiles == 3
Clases == {"suelto", "zip", "zipzip"}

StOnly ==
    UNCHANGED <<sanVars, trendVars, matchVars, wkVars, scratchVars, listaVars,
                exVars, cntVars, appVars>>

InitSteps ==
    /\ s_carpeta \in SeqsUpTo(Clases, MaxFiles) \ {<<>>}
    /\ s_idx = 1
    /\ s_anidado = FALSE
    /\ s_cancel = FALSE
    /\ s_extracciones = <<>>
    /\ s_pc = "walk"
    /\ SanIdle /\ TrendIdle /\ MatchIdle /\ WorkerIdle
    /\ ListaIdle /\ ExIdle /\ CntIdle /\ AppIdle

\* The walk moves to the next file, or the function returns
Avanzar ==
    /\ s_idx' = s_idx + 1
    /\ s_pc' = IF s_idx = Len(s_carpeta) THEN "fin" ELSE "walk"

\* cm.py 346-348: a plain file is listed
ListarSuelto ==
    /\ s_pc = "walk" /\ ~s_anidado
    /\ s_carpeta[s_idx] = "suelto"
    /\ Avanzar
    /\ UNCHANGED <<s_carpeta, s_anidado, s_cancel, s_extracciones>>
    /\ StOnly

\* cm.py 324-332: an archive of the month folder is extracted; the function
\* has no access to cancel_event
ExtraerContenedor ==
    /\ s_pc = "walk" /\ ~s_anidado
    /\ s_carpeta[s_idx] \in {"zip", "zipzip"}
    /\ s_extracciones' = Append(s_extracciones, s_cancel)
    /\ IF s_carpeta[s_idx] = "zipzip"
       THEN s_anidado' = TRUE /\ UNCHANGED <<s_idx, s_pc>>
       ELSE Avanzar /\ UNCHANGED s_anidado
    /\ UNCHANGED <<s_carpeta, s_cancel>>
    /\ StOnly

\* cm.py 339-341 and 324-332 in the recursive call: the nested archive is
\* extracted
ExtraerAnidado ==
    /\ s_pc = "walk" /\ s_anidado
    /\ s_extracciones' = Append(s_extracciones, s_cancel)
    /\ s_anidado' = FALSE
    /\ Avanzar
    /\ UNCHANGED <<s_carpeta, s_cancel>>
    /\ StOnly

\* cancel_event.set() by the thread of the window while the expansion runs
SenalCancelar ==
    /\ s_pc = "walk"
    /\ ~s_cancel
    /\ s_cancel' = TRUE
    /\ UNCHANGED <<s_carpeta, s_idx, s_anidado, s_extracciones, s_pc>>
    /\ StOnly

NextSteps == ListarSuelto \/ ExtraerContenedor \/ ExtraerAnidado \/ SenalCancelar

SpecSteps == InitSteps /\ [][NextSteps]_vars

\* C22: no archive, in the month folder or nested, is extracted once the
\* cancel signal is set.
C22_NoExtractionAfterCancel ==
    \A i \in 1..Len(s_extracciones) : ~s_extracciones[i]

(***************************************************************************)
(* Properties of the four comparisons                                      *)
(***************************************************************************)
\* C23: in every comparison (with the previous month or with the historical
\* mean, of row counts or of sizes) a current value and a non-zero reference
\* that are both below the floor give a null percentage and 'Cambio Leve'.
\* The floor is taken equal to the literal of the previous-month shortcut.
C23_UniformFloorCheck ==
    (/\ Compared
     /\ valor_base[1] # 0
     /\ umbral_filas_min = UmbralFijo
     /\ BelowFloor(valor_actual) /\ BelowFloor(valor_base))
        => tendencia = <<None, "Cambio Leve">>

\* C24: a worker started from the window of Controles Minimos runs with
\* the floor that the window shows when it is started.
C24_ConfiguredFloorUsed ==
    [][a_app = "cm" =>
          \A i \in (Len(a_hilos) + 1)..Len(a_hilos') :
              a_hilos'[i] = "alive" => a_args'[i] = a_umbral_var]_vars

(***************************************************************************)
(* Properties of the inventory of a month                                  *)
(***************************************************************************)
\* The first descriptor of obs with base name n, and its position
PosPrimera(obs, n) ==
    CHOOSE i \in 1..Len(obs) :
        obs[i].path = n /\ \A j \in 1..(i - 1) : obs[j].path # n

\* C25: within a month the inventory holds one row per distinct file name
\* observed by the expansion, taken from the first descriptor of that name in
\* discovery order, and the ordinals of the rows are 1..n in that order.
C25_OneRowPerName ==
    pc \in {"archivo", "cerrar"} =>
        \E falla \in Fallas(carpeta_base[mes_carpeta].cont) :
            LET cont == carpeta_base[mes_carpeta].cont
                r == expandir(cont, falla, 1)
                obs == r.resultado
            IN  /\ ~r.error
                /\ FallaVista(cont, falla) = ultimo_fallo
                /\ {obs[i].path : i \in 1..Len(obs)}
                      = {archivos[k].path : k \in 1..Len(archivos)}
                /\ \A k \in 1..Len(archivos) :
                      /\ archivos[k] = obs[PosPrimera(obs, archivos[k].path)]
                      /\ \A l \in (k + 1)..Len(archivos) :
                            /\ archivos[k].path # archivos[l].path
                            /\ PosPrimera(obs, archivos[k].path)
                                  < PosPrimera(obs, archivos[l].path)
                /\ Len(datos_mes) <= Len(archivos)
                /\ (pc = "cerrar" /\ ~cancel_event) => Len(datos_mes) = Len(archivos)
                /\ \A i \in 1..Len(datos_mes) :
                      /\ datos_mes[i].corr = i
                      /\ datos_mes[i].nombre = archivos[i].nombre
                      /\ datos_mes[i].filas =
                            (IF archivos[i].legible THEN archivos[i].filas ELSE 0)

\* The name 'ab' is seen twice in the month (in the folder with 20 rows, in
\* the archive with 12): the inventory has the rows of 'ab' (20) and 'abc'
C25_Witness ==
    /\ pc = "cerrar" /\ ~cancel_event
    /\ carpeta_base[mes_carpeta].cont = ContD
    /\ ultimo_fallo = "none"
    /\ Len(datos_mes) = 2
    /\ datos_mes[1].nombre = <<"a", "b">> /\ datos_mes[1].filas = 20
    /\ datos_mes[2].nombre = <<"a", "b", "c">> /\ datos_mes[2].corr = 2

(***************************************************************************)
(* Properties of the extraction of an archive, entry by entry              *)
(***************************************************************************)
\* The file entries of z that have a plain name: kept by the sanitizer, not
\* hidden, not an archive
EntradasLlanas(z) ==
    {i \in EntradasArchivo(z) :
        LET safe_n == _sanitize_zipinfo_name(z.miembros[i].nombre)
        IN  safe_n # <<>> /\ ~oculto(basename(safe_n)) /\ ~is_archive_path(safe_n)}

\* C26: in a zip or tar archive that can be read, an entry whose name
\* sanitizes to the empty string is skipped and the other entries are still
\* extracted and listed.
C26_EmptyNameSkipped ==
    LET z == x_carpeta[1]
    IN  (/\ x_pc = "hecho" /\ ~z.roto
         /\ \E i \in EntradasArchivo(z) :
               _sanitize_zipinfo_name(z.miembros[i].nombre) = <<>>)
            => \A i \in EntradasLlanas(z) :
                  Veces(Ruta(<<z.nombre>>, _sanitize_zipinfo_name(z.miembros[i].nombre))) >= 1

(***************************************************************************)
(* Properties of the events of a run                                       *)
(***************************************************************************)
\* C27: a run that has returned has put exactly one 'done' event on the
\* queue, and the count it carries is the number of months merged into the
\* ledger by the run.
C27_OneDonePerRun ==
    (pc = "idle" /\ fin \notin {"none", "running"}) =>
        /\ Len(q_done) = 1
        /\ q_done[1] # None => q_done[1] = <<Cardinality(resultados_mensuales)>>

\* C28: when an archive whose entries have distinct names is expanded,
\* every file in it that is not an archive and not hidden, next to a nested
\* archive or inside one, is listed exactly once.
C28_EachFileOnce ==
    LET z == x_carpeta[1]
    IN  (x_pc = "hecho" /\ ~extraer_archivo(z).error /\ SinRepetidos(z)) =>
            \A q \in Range(en_disco(z)) :
                ~oculto(basename(q)) =>
                    IF is_archive_path(q)
                    THEN miembro_en(z, q).roto
                            \/ \A k \in 1..Len(Interior) :
                                  Veces(Ruta(<<z.nombre, q>>, Interior[k])) = 1
                    ELSE Veces(Ruta(<<z.nombre>>, q)) = 1

(***************************************************************************)
(* Properties of the row count                                             *)
(***************************************************************************)
\* C29: the row count obtained for a file is never negative.
C29_CountNotNegative ==
    c_pc = "contado" => c_filas >= 0

(***************************************************************************)
(* Termination of the Space-Guard loop                                     *)
(***************************************************************************)
\* The steps of the worker thread.  The thread is never suspended for good
\* and every dialog it opens is answered, so a step that stays possible is
\* taken.
PasoWorker ==
    \/ PreguntarDuplicados
    \/ BuscarYCargar
    \/ IniciarMes
    \/ Expandir
    \/ LimpiarYVerificar
    \/ ResponderLiberar
    \/ LeerArchivo
    \/ CancelacionEnMes
    \/ CerrarMes
    \/ GuardarHistorico
    \/ rmtree_safe

\* One run of the worker whose thread keeps running until it returns
SpecGuard == InitScratch /\ [][Next]_vars /\ WF_vars(PasoWorker)

\* C30: once the expansion of a month has run out of space, the worker
\* eventually either expands the month or stops the run for lack of space.
C30_GuardTerminates ==
    (pc = "espacio") ~> (pc \in {"archivo", "mes"} \/ fin = "sin_espacio")

====
